---- MODULE Spec2Model ----
(***************************************************************************)
(* Big Calendar: events stored as lines of daily-note documents.           *)
(*                                                                         *)
(* A JavaScript string is modelled as a sequence of one-character strings  *)
(* (an emoji is one element: "TAKEOFF", "CAL", "TIMER"); a document is its *)
(* content string, line breaks included, exactly as the vault stores it.   *)
(***************************************************************************)
EXTENDS Integers, Sequences, FiniteSets, TLC

VARIABLES
    vault,      \* path -> content string, or NoFile
    pre,        \* the vault as it was when the last operation started
    last,       \* what the last operation was called with and how it ended
    nops,       \* operations run so far
    tasks,      \* the asynchronous calls in flight, each with its position
    settings    \* pluginSetting: InsertAfter and ProcessEntriesBelow

vars == <<vault, pre, last, nops, tasks, settings>>

-----------------------------------------------------------------------------
(* Bounds *)

MaxOps == 3

\* calls in flight at the same time
MaxTasks == 2

-----------------------------------------------------------------------------
(* Strings *)

Digits == {"0", "1", "2", "3", "4", "5", "6", "7", "8", "9"}

IsDigit(c) == c \in Digits

DigitVal(c) ==
    CASE c = "0" -> 0 [] c = "1" -> 1 [] c = "2" -> 2 [] c = "3" -> 3 [] c = "4" -> 4
      [] c = "5" -> 5 [] c = "6" -> 6 [] c = "7" -> 7 [] c = "8" -> 8 [] c = "9" -> 9

Min(a, b) == IF a <= b THEN a ELSE b

\* String.prototype.slice(from) for from >= 0
SliceFrom(s, from) == SubSeq(s, from + 1, Len(s))

\* String.prototype.slice(from, to) for 0 <= from <= to
Slice(s, from, to) == SubSeq(s, from + 1, Min(to, Len(s)))

\* p occurs in s at the 1-based position i
OccursAt(s, p, i) ==
    /\ i >= 1
    /\ i + Len(p) - 1 <= Len(s)
    /\ SubSeq(s, i, i + Len(p) - 1) = p

\* String.prototype.startsWith
StartsWith(s, p) == OccursAt(s, p, 1)

\* String.prototype.includes
Includes(s, p) == \E i \in 1..(Len(s) - Len(p) + 1) : OccursAt(s, p, i)

\* String.prototype.indexOf, 1-based; 0 when p does not occur
IndexOf(s, p) ==
    IF Includes(s, p)
    THEN CHOOSE i \in 1..(Len(s) - Len(p) + 1) :
            /\ OccursAt(s, p, i)
            /\ \A j \in 1..(i - 1) : ~OccursAt(s, p, j)
    ELSE 0

\* a replace that finds nothing
ReplaceNothing(s, p) == s

\* String.prototype.replace(p, '') with a string pattern: the first occurrence goes
ReplaceFirstWithEmpty(s, p) ==
    LET i == IndexOf(s, p)
    IN  IF i = 0 THEN s ELSE SubSeq(s, 1, i - 1) \o SubSeq(s, i + Len(p), Len(s))

\* the number of leading digits of s
RECURSIVE DigitRun(_)
DigitRun(s) == IF s # <<>> /\ IsDigit(Head(s)) THEN 1 + DigitRun(Tail(s)) ELSE 0

RECURSIVE DigitsValue(_, _)
DigitsValue(s, acc) ==
    IF s = <<>> THEN acc ELSE DigitsValue(Tail(s), 10 * acc + DigitVal(Head(s)))

NaN == [nan |-> TRUE, val |-> 0]

\* parseInt(s) for a string without leading white space or sign: the leading
\* digits, NaN when there is none
ParseInt(s) ==
    LET n == DigitRun(s)
    IN  IF n = 0 THEN NaN ELSE [nan |-> FALSE, val |-> DigitsValue(SubSeq(s, 1, n), 0)]

IsSpace(c) == c \in {" ", "\t", "\n", "\r"}

\* String.prototype.trim
Trim(s) ==
    LET keep == {i \in 1..Len(s) : ~IsSpace(s[i])}
    IN  IF keep = {} THEN <<>>
        ELSE SubSeq(s, CHOOSE i \in keep : \A j \in keep : i <= j,
                       CHOOSE i \in keep : \A j \in keep : i >= j)

DigitChar(d) ==
    CASE d = 0 -> "0" [] d = 1 -> "1" [] d = 2 -> "2" [] d = 3 -> "3" [] d = 4 -> "4"
      [] d = 5 -> "5" [] d = 6 -> "6" [] d = 7 -> "7" [] d = 8 -> "8" [] d = 9 -> "9"

\* String(n) for 0 <= n
RECURSIVE Decimal(_)
Decimal(n) == IF n < 10 THEN <<DigitChar(n)>> ELSE Append(Decimal(n \div 10), DigitChar(n % 10))

\* the lines of a content string: content.split('\n')
getAllLinesFromFile(content) ==
    LET breaks == {i \in 1..Len(content) : content[i] = "\n"}
        \* the line break that ends line k (the end of the content for the last line)
        EndOf(k) == CHOOSE i \in breaks \cup {Len(content) + 1} :
                        Cardinality({j \in breaks : j < i}) = k - 1
        \* the line break before line k (position 0 for the first line)
        StartOf(k) == IF k = 1 THEN 0 ELSE EndOf(k - 1)
    IN  [k \in 1..(Cardinality(breaks) + 1) |-> SubSeq(content, StartOf(k) + 1, EndOf(k) - 1)]

\* Array.prototype.join('\n')
RECURSIVE JoinLines(_)
JoinLines(lines) ==
    IF lines = <<>> THEN <<>>
    ELSE IF Len(lines) = 1 THEN lines[1]
    ELSE lines[1] \o <<"\n">> \o JoinLines(Tail(lines))

-----------------------------------------------------------------------------
(* The vault *)

\* a vault entry: a file with its content, or no file at that path
NoFile == [exists |-> FALSE, content |-> <<>>]

File(content) == [exists |-> TRUE, content |-> content]

\* the daily notes of three days, and the ledger in the daily-note folder
Note1 == "2025-09-01.md"

Note2 == "2025-09-02.md"

Note12 == "2025-09-12.md"

LedgerPath == "delete.md"

Paths == {Note1, Note2, Note12, LedgerPath}

EmptyVault == [p \in Paths |-> NoFile]

\* getDailyNote: the path of the note of the day YYYYMMDD
NotePathOfDay(day) ==
    CASE day = <<"2", "0", "2", "5", "0", "9", "0", "1">> -> Note1
      [] day = <<"2", "0", "2", "5", "0", "9", "0", "2">> -> Note2
      [] day = <<"2", "0", "2", "5", "0", "9", "1", "2">> -> Note12

-----------------------------------------------------------------------------
(* Line patterns *)

\* /^- /
IsEventLine(line) == StartsWith(line, <<"-", " ">>)

\* /^#{1,} /
IsHeadingLine(line) ==
    \E n \in 1..(Len(line) - 1) :
        /\ \A k \in 1..n : line[k] = "#"
        /\ line[n + 1] = " "

\* /^- (.+)$/
IsRecordLine(line) == IsEventLine(line) /\ Len(line) >= 3

\* /^\d{14,}$/
IsEventId(id) == Len(id) >= 14 /\ \A k \in 1..Len(id) : IsDigit(id[k])

\* /\d{14,}/
HasDigitRun14(id) ==
    \E i \in 1..(Len(id) - 13) : \A k \in i..(i + 13) : IsDigit(id[k])

\* the 0-based index of the first line for which P holds, -1 when there is none
FirstLineWhere(lines, P(_)) ==
    IF \E i \in 1..Len(lines) : P(lines[i])
    THEN (CHOOSE i \in 1..Len(lines) :
            /\ P(lines[i])
            /\ \A j \in 1..(i - 1) : ~P(lines[j])) - 1
    ELSE -1

-----------------------------------------------------------------------------
(* deleteEventFromDailyNote *)

\* method 1: the first event line that contains the title
FindByTitle(fileLines, eventTitle) ==
    IF eventTitle # <<>>
    THEN FirstLineWhere(fileLines, LAMBDA line : IsEventLine(line) /\ Includes(line, eventTitle))
    ELSE -1

\* HH:mm from characters 8..11 of the id
TimePattern(eventId) ==
    LET timeStr == Slice(eventId, 8, 12)
    IN  Slice(timeStr, 0, 2) \o <<":">> \o Slice(timeStr, 2, 4)

\* method 2: the first event line that contains HH:mm
FindByTime(fileLines, eventId) ==
    FirstLineWhere(fileLines,
                   LAMBDA line : IsEventLine(line) /\ Includes(line, TimePattern(eventId)))

\* the number of event lines among the first n lines
RECURSIVE EventCountBefore(_, _)
EventCountBefore(fileLines, n) ==
    IF n = 0 THEN 0
    ELSE EventCountBefore(fileLines, n - 1) + (IF IsEventLine(fileLines[n]) THEN 1 ELSE 0)

\* method 3: the event line with lineIndex event lines above it
FindByIndex(fileLines, eventId) ==
    LET lineIndex == ParseInt(SliceFrom(eventId, 14))
    IN  IF lineIndex.nan THEN -1
        ELSE IF \E i \in 1..Len(fileLines) :
                    IsEventLine(fileLines[i]) /\ EventCountBefore(fileLines, i - 1) = lineIndex.val
        THEN (CHOOSE i \in 1..Len(fileLines) :
                    IsEventLine(fileLines[i]) /\ EventCountBefore(fileLines, i - 1) = lineIndex.val) - 1
        ELSE -1

\* the ordinal tried first
FindTargetIndexFirst(fileLines, eventId, eventTitle) ==
    LET byTitle == FindByTitle(fileLines, eventTitle)
        byTime  == FindByTime(fileLines, eventId)
        byIndex == FindByIndex(fileLines, eventId)
    IN  IF byIndex # -1 THEN [line |-> byIndex, method |-> "index"]
        ELSE IF byTitle # -1 THEN [line |-> byTitle, method |-> "title"]
        ELSE IF byTime # -1 THEN [line |-> byTime, method |-> "time"]
        ELSE [line |-> -1, method |-> "none"]

\* the three methods in the order the code tries them: the first that finds a line
\* decides which line it is
FindTarget(fileLines, eventId, eventTitle) ==
    LET byTitle == FindByTitle(fileLines, eventTitle)
        byTime  == FindByTime(fileLines, eventId)
        byIndex == FindByIndex(fileLines, eventId)
    IN  IF byTitle # -1 THEN [line |-> byTitle, method |-> "title"]
        ELSE IF byTime # -1 THEN [line |-> byTime, method |-> "time"]
        ELSE IF byIndex # -1 THEN [line |-> byIndex, method |-> "index"]
        ELSE [line |-> -1, method |-> "none"]

\* a scan that also stops at a blank line
FindEndIndexBlankStops(fileLines, targetLineIndex) ==
    LET IsStop(k) == \/ IsEventLine(fileLines[k + 1])
                     \/ IsHeadingLine(fileLines[k + 1])
                     \/ fileLines[k + 1] = <<>>
        after == {k \in (targetLineIndex + 1)..(Len(fileLines) - 1) : IsStop(k)}
    IN  IF after # {}
        THEN (CHOOSE k \in after : \A j \in after : k <= j) - 1
        ELSE Len(fileLines) - 1

\* the scan forward from the target line: the line before the next event line or
\* heading, or the last line of the file
FindEndIndex(fileLines, targetLineIndex) ==
    LET IsStop(k) == IsEventLine(fileLines[k + 1]) \/ IsHeadingLine(fileLines[k + 1])
        after == {k \in (targetLineIndex + 1)..(Len(fileLines) - 1) : IsStop(k)}
    IN  IF after # {}
        THEN (CHOOSE k \in after : \A j \in after : k <= j) - 1
        ELSE Len(fileLines) - 1

\* a deletion that keeps the first line of the span
RemoveLinesAfterStart(fileLines, startIndex, endIndex) ==
    SubSeq(fileLines, 1, startIndex + 1) \o SubSeq(fileLines, endIndex + 2, Len(fileLines))

\* [...fileLines.slice(0, startIndex), ...fileLines.slice(endIndex + 1)]
RemoveLines(fileLines, startIndex, endIndex) ==
    SubSeq(fileLines, 1, startIndex) \o SubSeq(fileLines, endIndex + 2, Len(fileLines))

-----------------------------------------------------------------------------
(* Where a new record goes: findInsertPosition *)

\* /^- \d{1,2}:\d{2}/
StartsWithDashTime(line) ==
    /\ IsEventLine(line)
    /\ \E n \in {1, 2} :
          /\ Len(line) >= 2 + n + 3
          /\ \A k \in 3..(2 + n) : IsDigit(line[k])
          /\ line[3 + n] = ":"
          /\ IsDigit(line[4 + n]) /\ IsDigit(line[5 + n])

isTaskOrEvent(line) ==
    \/ StartsWithDashTime(line)
    \/ Includes(line, <<"-", " ", "[", " ", "]">>)
    \/ Includes(line, <<"-", " ", "[", "x", "]">>)
    \/ Includes(line, <<"-", " ", "[", "-", "]">>)
    \/ /\ StartsWith(line, <<"-", " ">>)
       /\ Includes(line, <<" ", "CAL", " ">>) \/ Includes(line, <<" ", "TAKEOFF", " ">>)

\* the greatest element of a non-empty set of integers
MaxOfSet(S) == CHOOSE x \in S : \A y \in S : x >= y

MinOfSet(S) == CHOOSE x \in S : \A y \in S : x <= y

\* a position that looks for the anchor of the settings first
findInsertPositionAnchorFirst(fileLines, eventType, st) ==
    LET n == Len(fileLines)
        records == {i \in 0..(n - 1) : isTaskOrEvent(fileLines[i + 1])}
        anchors == {i \in 0..(n - 1) : Includes(fileLines[i + 1], st.InsertAfter)}
    IN  IF Trim(st.InsertAfter) # <<>> /\ anchors # {} THEN MinOfSet(anchors) + 1
        ELSE IF records # {} THEN MaxOfSet(records) + 1
        ELSE n

findInsertPosition(fileLines, eventType, st) ==
    LET n == Len(fileLines)
        records == {i \in 0..(n - 1) : isTaskOrEvent(fileLines[i + 1])}
        anchors == {i \in 0..(n - 1) : Includes(fileLines[i + 1], st.InsertAfter)}
        \* the first line after the anchor that is not blank
        afterAnchor ==
            LET i == MinOfSet(anchors)
                rest == {j \in (i + 1)..(n - 1) : Trim(fileLines[j + 1]) # <<>>}
            IN  IF rest = {} THEN n ELSE MinOfSet(rest)
        markers == {i \in 0..(n - 1) : Includes(fileLines[i + 1], st.ProcessEntriesBelow)}
        headings == {i \in 0..(n - 1) : StartsWith(fileLines[i + 1], <<"#">>)}
    IN  IF eventType \in {"TASK-TODO", "default"} /\ records # {}
        THEN MaxOfSet(records) + 1
        ELSE IF Trim(st.InsertAfter) # <<>> /\ anchors # {} THEN afterAnchor
        ELSE IF Trim(st.ProcessEntriesBelow) # <<>> /\ markers # {} THEN MinOfSet(markers) + 1
        ELSE IF n = 0 THEN 0
        ELSE IF headings # {} THEN MinOfSet(headings) + 1
        ELSE n

\* Array.prototype.splice(position, 0, newLine)
InsertLine(fileLines, position, newLine) ==
    SubSeq(fileLines, 1, position) \o <<newLine>> \o SubSeq(fileLines, position + 1, Len(fileLines))

-----------------------------------------------------------------------------
(* The ledger of deleted events: delete.md *)

DeletedAtTag == <<" ", "d", "e", "l", "e", "t", "e", "d", "A", "t", ":", " ">>

\* an append that starts a new line also in an empty ledger
AppendEntryBelow(fileContent, event, deleteDate) ==
    fileContent \o <<"\n">> \o event \o DeletedAtTag \o deleteDate

\* createDeleteEventInFile: the content written
AppendEntry(fileContent, event, deleteDate) ==
    IF fileContent = <<>>
    THEN event \o DeletedAtTag \o deleteDate
    ELSE fileContent \o <<"\n">> \o event \o DeletedAtTag \o deleteDate

\* a line number that takes the one line of an empty ledger for an entry
NextLineNumAfterAll(fileContents) == Len(getAllLinesFromFile(fileContents)) + 1

\* lineNum of sendEventToDelete when delete.md exists
NextLineNum(fileContents) ==
    LET fileLines == getAllLinesFromFile(fileContents)
    IN  IF Len(fileLines) = 1 /\ fileLines[1] = <<>> THEN 1 ELSE Len(fileLines) + 1

\* date.format('YYYYMMDDHHmmss') + lineNum, for the ledger content read (the file
\* just created is empty and gets 1)
DeleteDateID(ledger, now) ==
    IF ledger.exists THEN now \o Decimal(NextLineNum(ledger.content)) ELSE now \o Decimal(1)

Undefined == <<"u", "n", "d", "e", "f", "i", "n", "e", "d">>

\* fileLines[lineNum - 1] as the string that replace() and test() make of it
LineAt(fileLines, lineNum) ==
    IF ~lineNum.nan /\ lineNum.val >= 1 /\ lineNum.val <= Len(fileLines)
    THEN fileLines[lineNum.val]
    ELSE Undefined

\* the line a ledger id addresses: parseInt(deletedEventid.slice(14))
LedgerLine(fileContents, deletedEventid) ==
    LineAt(getAllLinesFromFile(fileContents), ParseInt(SliceFrom(deletedEventid, 14)))

\* the 1-based position of the last " deletedAt: " of a line, 0 when there is none
LastTagAt(line) ==
    LET at == {i \in 1..Len(line) : OccursAt(line, DeletedAtTag, i)}
    IN  IF at = {} THEN 0 ELSE MaxOfSet(at)

\* the id of a ledger line: what follows "deletedAt: "
extractDeletedEventId(line) ==
    IF LastTagAt(line) = 0 THEN <<>>
    ELSE SubSeq(line, LastTagAt(line) + Len(DeletedAtTag), Len(line))

\* the text of a ledger line: between "- " and " deletedAt: "
extractDeletedEvent(line) ==
    IF LastTagAt(line) = 0 THEN <<>> ELSE SubSeq(line, 3, LastTagAt(line) - 1)

\* insertAfterHandler: the record line goes where findInsertPosition says
insertAfterHandler(newEvent, fileContents, st) ==
    LET fileLines == getAllLinesFromFile(fileContents)
    IN  JoinLines(InsertLine(fileLines, findInsertPosition(fileLines, "default", st), newEvent))

\* `- ${timeHour}:${timeMinute} ${extractDeletedEvent(line)}`
RestoredLine(line) ==
    LET id == extractDeletedEventId(line)
    IN  <<"-", " ">> \o Slice(id, 8, 10) \o <<":">> \o Slice(id, 10, 12) \o <<" ">>
            \o extractDeletedEvent(line)

\* getDeletedEvents: a line is listed when it has "- ", an id and a text
IsDeletedEntry(line) ==
    /\ Includes(line, <<"-", " ">>)
    /\ extractDeletedEventId(line) # <<>>
    /\ extractDeletedEvent(line) # <<>>

DeletedEntry(line) == [id |-> extractDeletedEventId(line), content |-> extractDeletedEvent(line)]

\* getDeletedEvents: the entries of delete.md, in the order of their lines
getDeletedEvents(ledger) ==
    IF ~ledger.exists THEN <<>>
    ELSE LET entries == SelectSeq(getAllLinesFromFile(ledger.content), IsDeletedEntry)
         IN  [k \in 1..Len(entries) |-> DeletedEntry(entries[k])]

-----------------------------------------------------------------------------
(* Editing an event: the pure functions of changeEvent *)

Letters ==
    {"a", "b", "c", "d", "e", "f", "g", "h", "i", "j", "k", "l", "m",
     "n", "o", "p", "q", "r", "s", "t", "u", "v", "w", "x", "y", "z",
     "A", "B", "C", "D", "E", "F", "G", "H", "I", "J", "K", "L", "M",
     "N", "O", "P", "Q", "R", "S", "T", "U", "V", "W", "X", "Y", "Z"}

\* [a-zA-Z0-9]
IsAlnum(c) == c \in Letters \/ IsDigit(c)

\* a moment is YYYYMMDDHHmm; isSame(., 'day') and isSame(., 'minute')
SameDay(a, b) == SubSeq(a, 1, 8) = SubSeq(b, 1, 8)

SameMinute(a, b) == SubSeq(a, 1, 12) = SubSeq(b, 1, 12)

\* format('HH:mm')
FormatTime(m) == <<m[9], m[10], ":", m[11], m[12]>>

\* format('YYYY-MM-DD')
FormatDate(m) == <<m[1], m[2], m[3], m[4], "-", m[5], m[6], "-", m[7], m[8]>>

\* moment(eventid.slice(0, 13) + '00', 'YYYYMMDDHHmmSS')
OriginalStartDate(eventid) == Slice(eventid, 0, 12)

\* the length of the match of \d{1,2}:\d{2} at the 1-based position i, 0 for none
TimeLenAt(s, i) ==
    IF /\ i >= 1 /\ i + 4 <= Len(s)
       /\ IsDigit(s[i]) /\ IsDigit(s[i + 1]) /\ s[i + 2] = ":"
       /\ IsDigit(s[i + 3]) /\ IsDigit(s[i + 4])
    THEN 5
    ELSE IF /\ i >= 1 /\ i + 3 <= Len(s)
            /\ IsDigit(s[i]) /\ s[i + 1] = ":" /\ IsDigit(s[i + 2]) /\ IsDigit(s[i + 3])
    THEN 4
    ELSE 0

\* /^\d{1,2}:\d{2}/
HasLeadingTime(s) == TimeLenAt(s, 1) > 0

\* the number of white-space characters of s from the position i on
SpaceRun(s, i) ==
    LET stops == {j \in i..(Len(s) + 1) : j = Len(s) + 1 \/ ~IsSpace(s[j])}
    IN  MinOfSet(stops) - i

\* the length of the match of /^\d{1,2}:\d{2}(-\d{1,2}:\d{2})?\s+/, 0 for none
LeadingTimeLen(s) ==
    LET t1   == TimeLenAt(s, 1)
        t2   == IF t1 > 0 /\ t1 + 1 <= Len(s) /\ s[t1 + 1] = "-"
                THEN TimeLenAt(s, t1 + 2) ELSE 0
        head == IF t2 > 0 THEN t1 + 1 + t2 ELSE t1
    IN  IF t1 = 0 \/ SpaceRun(s, head + 1) = 0 THEN 0 ELSE head + SpaceRun(s, head + 1)

\* the match of tag\s? followed by a pattern, at i
TaggedLenAt(s, i, tag, LenAt(_, _)) ==
    IF i < 1 \/ i > Len(s) \/ s[i] # tag THEN 0
    ELSE IF i + 1 <= Len(s) /\ IsSpace(s[i + 1]) /\ LenAt(s, i + 2) > 0
    THEN 2 + LenAt(s, i + 2)
    ELSE IF LenAt(s, i + 1) > 0 THEN 1 + LenAt(s, i + 1)
    ELSE 0

\* /\d{4}-\d{2}-\d{2}/ at i
DateLenAt(s, i) ==
    IF /\ i >= 1 /\ i + 9 <= Len(s)
       /\ \A k \in {0, 1, 2, 3, 5, 6, 8, 9} : IsDigit(s[i + k])
       /\ s[i + 4] = "-" /\ s[i + 7] = "-"
    THEN 10 ELSE 0

\* /⏲\s?\d{1,2}:\d{2}/ at i
TimerLenAt(s, i) == TaggedLenAt(s, i, "TIMER", TimeLenAt)

\* /📅\s?\d{4}-\d{2}-\d{2}/ at i
CalLenAt(s, i) == TaggedLenAt(s, i, "CAL", DateLenAt)

\* /\d{1,2}:\d{2}-\d{1,2}:\d{2}/ at i
RangeLenAt(s, i) ==
    LET t1 == TimeLenAt(s, i)
        t2 == IF t1 > 0 /\ i + t1 <= Len(s) /\ s[i + t1] = "-"
              THEN TimeLenAt(s, i + t1 + 1) ELSE 0
    IN  IF t2 > 0 THEN t1 + 1 + t2 ELSE 0

\* the length of the match at i of one of the patterns cleanEvent removes
PatLenAt(pattern, s, i) ==
    CASE pattern = "timer" -> TimerLenAt(s, i)
      [] pattern = "cal"   -> CalLenAt(s, i)
      [] pattern = "range" -> RangeLenAt(s, i)

\* replace(/pattern/g, ''): every match, scanning from the left at i, goes
RECURSIVE RemoveAllFrom(_, _, _)
RemoveAllFrom(s, pattern, i) ==
    IF i > Len(s) THEN <<>>
    ELSE IF PatLenAt(pattern, s, i) > 0
    THEN RemoveAllFrom(s, pattern, i + PatLenAt(pattern, s, i))
    ELSE <<s[i]>> \o RemoveAllFrom(s, pattern, i + 1)

RemoveAll(s, pattern) == RemoveAllFrom(s, pattern, 1)

\* replace(/^\d{1,2}:\d{2}(-\d{1,2}:\d{2})?\s+/, '')
RemoveLeadingTime(c) == SubSeq(c, LeadingTimeLen(c) + 1, Len(c))

\* the four replacements of cleanEvent, each followed by trim()
StripTimes(c) ==
    Trim(RemoveAll(Trim(RemoveAll(Trim(RemoveAll(Trim(RemoveLeadingTime(c)),
                                                 "timer")), "cal")), "range"))

\* the cleaned original content when nothing is left of the new content
OrOriginal(cleanContent, originalContent) ==
    IF cleanContent = <<>> /\ originalContent # <<>>
    THEN StripTimes(originalContent)
    ELSE cleanContent

cleanEvent(originalContent, content) == OrOriginal(StripTimes(content), originalContent)

\* no mark: getMarkBasedOnEvent returns null
NoMark == <<>>

\* the character between the brackets of a task of that type
getMarkBasedOnEvent(eventType) ==
    CASE eventType = "TASK-TODO" -> <<" ">>
      [] eventType = "TASK-DONE" -> <<"x">>
      [] OTHER -> NoMark

\* eventType.startsWith('TASK-')
IsTaskType(eventType) == eventType \in {"TASK-TODO", "TASK-DONE"}

\* "- " or "- [mark] "
LinePrefix(mark) ==
    IF mark = NoMark THEN <<"-", " ">> ELSE <<"-", " ", "[">> \o mark \o <<"]", " ">>

\* the position of the match of /\s(\^[a-zA-Z0-9]{2,})$/, 0 for none
BlockIdAt(s) ==
    LET at == {p \in 1..(Len(s) - 3) :
                  /\ IsSpace(s[p]) /\ s[p + 1] = "^"
                  /\ \A k \in (p + 2)..Len(s) : IsAlnum(s[k])}
    IN  IF at = {} THEN 0 ELSE MinOfSet(at)

\* blockIdMatch[1]
BlockId(s) == IF BlockIdAt(s) = 0 THEN <<>> ELSE SubSeq(s, BlockIdAt(s) + 1, Len(s))

\* cleanContent.replace(blockIdMatch[0], '')
WithoutBlockId(s) ==
    IF BlockIdAt(s) = 0 THEN s ELSE ReplaceFirstWithEmpty(s, SubSeq(s, BlockIdAt(s), Len(s)))

\* " " + blockId when there is one
BlockIdSuffix(s) == IF BlockId(s) = <<>> THEN <<>> ELSE <<" ">> \o BlockId(s)

\* notes appended as they are, without the tabs
PlainNotes(notes) == IF Trim(notes) = <<>> THEN <<>> ELSE <<"\n">> \o Trim(notes)

\* notes.trim().split('\n').map(line => `\t${line}`).join('\n'), after "\n"
IndentedNotes(notes) ==
    IF Trim(notes) = <<>> THEN <<>>
    ELSE LET notesLines == getAllLinesFromFile(Trim(notes))
         IN  <<"\n">> \o JoinLines([k \in 1..Len(notesLines) |-> <<"\t">> \o notesLines[k]])

\* a formatter that writes the dates whatever the days are
formatEventLineDatesOnly(cleanContent, startMoment, endMoment, eventType, notes) ==
    LinePrefix(getMarkBasedOnEvent(eventType)) \o WithoutBlockId(cleanContent)
        \o <<" ", "TAKEOFF", " ">> \o FormatDate(startMoment)
        \o <<" ", "CAL", " ">> \o FormatDate(endMoment)
        \o IndentedNotes(notes) \o BlockIdSuffix(cleanContent)

formatEventLine(cleanContent, startMoment, endMoment, eventType, notes) ==
    LET mark == getMarkBasedOnEvent(eventType)
        processedContent == WithoutBlockId(cleanContent)
        newLine ==
            IF SameDay(startMoment, endMoment)
            THEN LinePrefix(mark) \o FormatTime(startMoment) \o <<"-">> \o FormatTime(endMoment)
                    \o <<" ">> \o processedContent
            ELSE LinePrefix(mark) \o processedContent
                    \o <<" ", "TAKEOFF", " ">> \o FormatDate(startMoment)
                    \o <<" ", "CAL", " ">> \o FormatDate(endMoment)
    IN  newLine \o IndentedNotes(notes) \o BlockIdSuffix(cleanContent)

\* an all-day formatter that looks at the original start day only
formatAllDayEventStartOnly(cleanContent, originalStartDate, eventStartMoment, eventEndMoment, eventType) ==
    LinePrefix(getMarkBasedOnEvent(eventType)) \o WithoutBlockId(cleanContent)
        \o (IF ~SameDay(originalStartDate, eventStartMoment)
            THEN <<" ", "TAKEOFF", " ">> \o FormatDate(eventStartMoment) ELSE <<>>)
        \o <<" ", "CAL", " ">> \o FormatDate(eventEndMoment)
        \o BlockIdSuffix(cleanContent)

formatAllDayEvent(cleanContent, originalStartDate, eventStartMoment, eventEndMoment, eventType) ==
    LET mark == getMarkBasedOnEvent(eventType)
        processedContent == WithoutBlockId(cleanContent)
        startDateChanged == ~SameDay(originalStartDate, eventStartMoment)
        sameDay == SameDay(eventStartMoment, eventEndMoment)
    IN  LinePrefix(mark) \o processedContent
            \o (IF ~sameDay \/ startDateChanged
                THEN <<" ", "TAKEOFF", " ">> \o FormatDate(eventStartMoment) ELSE <<>>)
            \o <<" ", "CAL", " ">> \o FormatDate(eventEndMoment)
            \o BlockIdSuffix(cleanContent)

\* `- [${mark}] ${startTime}-${endTime} ${cleanContent}` of updateEndDateOnly and
\* moveEventToNewDay
formatSameDay(cleanContent, eventStartMoment, eventEndMoment, eventType) ==
    LinePrefix(getMarkBasedOnEvent(eventType)) \o FormatTime(eventStartMoment) \o <<"-">>
        \o FormatTime(eventEndMoment) \o <<" ">> \o cleanContent

\* the position at which the time of a record line starts: after "- " or "- [c] "
TimeStart(line) ==
    IF /\ Len(line) >= 6 /\ IsEventLine(line)
       /\ line[3] = "[" /\ line[5] = "]" /\ line[6] = " "
    THEN 7 ELSE 3

\* the time token at the position i of a line as HHmm, <<>> when there is none
TimeAt(line, i) ==
    IF TimeLenAt(line, i) = 5 THEN <<line[i], line[i + 1], line[i + 3], line[i + 4]>>
    ELSE IF TimeLenAt(line, i) = 4 THEN <<"0", line[i], line[i + 2], line[i + 3]>>
    ELSE <<>>

\* extractEventTime: hour and minute of a record line as HHmm, <<>> for null
extractEventTime(line) == IF IsEventLine(line) THEN TimeAt(line, TimeStart(line)) ELSE <<>>

\* createTimeRegex().test(line)
createTimeRegexTest(line) == extractEventTime(line) # <<>>

\* originalStartDate.clone().set({hour, minute}).format('YYYYMMDDHHmm')
LineTime(originalStartDate, timeInfo) == SubSeq(originalStartDate, 1, 8) \o timeInfo

\* /- \[[^\]]\]/
HasTaskBox(line) ==
    \E i \in 1..(Len(line) - 4) :
        /\ line[i] = "-" /\ line[i + 1] = " " /\ line[i + 2] = "["
        /\ line[i + 3] # "]" /\ line[i + 4] = "]"

\* the number after "_L" at the end of the id, NaN when /_L(\d+)$/ does not match
LineNumberOf(eventid) ==
    LET at == {i \in 1..(Len(eventid) - 2) :
                  /\ eventid[i] = "_" /\ eventid[i + 1] = "L"
                  /\ \A k \in (i + 2)..Len(eventid) : IsDigit(eventid[k])}
    IN  IF at = {} THEN NaN ELSE ParseInt(SubSeq(eventid, MinOfSet(at) + 2, Len(eventid)))

\* the first loop of findEventLine accepts the line, whose time is timeInfo
ExactMatchAt(line, eventid, originalContent, originalStartDate, eventType, timeInfo) ==
    /\ Includes(line, originalContent)
    /\ IsEventLine(line)
    /\ \/ /\ IsTaskType(eventType)
          /\ \/ Includes(line, <<"-", " ", "[">> \o getMarkBasedOnEvent(eventType) \o <<"]">>)
             \/ HasTaskBox(line)
       \/ /\ timeInfo # <<>>
          /\ LineTime(originalStartDate, timeInfo) = Slice(eventid, 0, 12)
       \/ /\ timeInfo = <<>>
          /\ \/ Trim(line) = <<"-", " ">> \o Trim(originalContent)
             \/ Includes(line, <<"-", " ">> \o Trim(originalContent) \o <<" ", "CAL">>)
             \/ Includes(line, <<"-", " ">> \o Trim(originalContent) \o <<" ", "TAKEOFF">>)
             \/ /\ IsTaskType(eventType)
                /\ Includes(line, LinePrefix(getMarkBasedOnEvent(eventType))
                                     \o Trim(originalContent))

ExactMatch(line, eventid, originalContent, originalStartDate, eventType) ==
    ExactMatchAt(line, eventid, originalContent, originalStartDate, eventType,
                 extractEventTime(line))

\* the last loop of findEventLine accepts the line
TimeMatch(line, eventid, originalStartDate) ==
    /\ IsEventLine(line)
    /\ createTimeRegexTest(line)
    /\ LineTime(originalStartDate, extractEventTime(line)) = Slice(eventid, 0, 12)

\* the line the "_L" number of the id names, when it holds the original content
LineNumberMatch(fileLines, lineNumber, originalContent) ==
    IF /\ ~lineNumber.nan /\ lineNumber.val < Len(fileLines)
       /\ Includes(fileLines[lineNumber.val + 1], originalContent)
    THEN lineNumber.val
    ELSE -1

\* the first of the results that is a line
FirstFound(found) ==
    IF \A k \in 1..Len(found) : found[k] = -1 THEN -1
    ELSE found[MinOfSet({k \in 1..Len(found) : found[k] # -1})]

findEventLine(fileLines, eventid, originalContent, originalStartDate, eventType) ==
    LET Exact(line) == ExactMatch(line, eventid, originalContent, originalStartDate, eventType)
        Fuzzy(line) == Includes(line, originalContent)
        Timed(line) == TimeMatch(line, eventid, originalStartDate)
    IN  FirstFound(<<LineNumberMatch(fileLines, LineNumberOf(eventid), originalContent),
                     FirstLineWhere(fileLines, Exact),
                     FirstLineWhere(fileLines, Fuzzy),
                     FirstLineWhere(fileLines, Timed)>>)

\* the lookup loop of updateTimeIntervalOnly
FindByContent(fileLines, originalContent) ==
    LET Has(line) == Includes(line, originalContent)
    IN  FirstLineWhere(fileLines, Has)

\* fileLines[lineIndex] = newLine
ReplaceLine(fileLines, lineIndex, newLine) == [fileLines EXCEPT ![lineIndex + 1] = newLine]

\* a move that leaves the source as it is
SpliceNothing(fileLines, lineIndex) == fileLines

\* fileLines.splice(lineIndex, 1)
SpliceLine(fileLines, lineIndex) ==
    SubSeq(fileLines, 1, lineIndex) \o SubSeq(fileLines, lineIndex + 2, Len(fileLines))

\* which branch of changeEvent a call takes
\* a routing by the dates alone, with no way of its own for all-day tasks
RouteByDates(t) ==
    LET originalStartDate == OriginalStartDate(t.id)
        startDateChanged == ~SameDay(originalStartDate, t.eventStartMoment)
        endDateChanged == ~SameDay(t.originalEndMoment, t.eventEndMoment)
    IN  IF ~startDateChanged /\ endDateChanged THEN "end"
        ELSE IF startDateChanged THEN "move"
        ELSE "time"

Route(t) ==
    LET originalStartDate == OriginalStartDate(t.id)
        startDateChanged == ~SameDay(originalStartDate, t.eventStartMoment)
        endDateChanged == ~SameDay(t.originalEndMoment, t.eventEndMoment)
        timeIntervalChanged == \/ ~SameMinute(t.eventStartMoment, originalStartDate)
                               \/ ~SameMinute(t.eventEndMoment, t.originalEndMoment)
    IN  IF IsTaskType(t.eventType) /\ ~HasLeadingTime(t.title) THEN "allDay"
        ELSE IF timeIntervalChanged /\ ~startDateChanged /\ ~endDateChanged THEN "time"
        ELSE IF ~startDateChanged /\ endDateChanged THEN "end"
        ELSE IF startDateChanged THEN "move"
        ELSE "time"

-----------------------------------------------------------------------------
(* An asynchronous call: it runs from one await to the next, `pc` says which   *)
(* await it is suspended at, and the read or write it awaits takes effect when *)
(* it is resumed.                                                              *)

NewTask(op, id, path, title, event, now) ==
    [op |-> op, pc |-> "call", err |-> "none",
     id |-> id, path |-> path, title |-> title, event |-> event, now |-> now,
     line |-> <<>>, buf |-> <<>>, start |-> -1, end |-> -1, method |-> "none",
     restored |-> FALSE, io |-> <<>>,
     eventType |-> "", eventStartMoment |-> <<>>, eventEndMoment |-> <<>>,
     originalEndMoment |-> <<>>, notes |-> <<>>,
     route |-> "none", files |-> {}, target |-> "", newLine |-> <<>>]

\* changeEvent(eventid, originalContent, content, eventType, eventStartDate,
\* eventEndDate, originalEndDate, originalPath, notes)
NewChange(eventid, originalContent, content, eventType, eventStartDate, eventEndDate, originalEndDate, originalPath, notes) ==
    [NewTask("change", eventid, originalPath, originalContent, content, <<>>) EXCEPT
        !.eventType = eventType, !.eventStartMoment = eventStartDate,
        !.eventEndMoment = eventEndDate, !.originalEndMoment = originalEndDate,
        !.notes = notes]

\* throw new Error(...)
Fail(t, err) == [t EXCEPT !.pc = "done", !.err = err]

Done(t) == [t EXCEPT !.pc = "done"]

Did(t, kind, path) == [t EXCEPT !.io = Append(t.io, <<kind, path>>)]

Write(v, path, content) == [v EXCEPT ![path] = File(content)]

\* deleteEventFromDailyNote
DeleteStep(t, v) ==
    CASE t.pc = "call" ->
            [v |-> v,
             t |-> IF ~IsEventId(t.id) THEN Fail(t, "InvalidId")
                   ELSE IF ~v[t.path].exists THEN Fail(t, "FileNotFound")
                   ELSE [t EXCEPT !.pc = "read"]]
      [] t.pc = "read" ->
            LET fileLines == getAllLinesFromFile(v[t.path].content)
                found     == FindTarget(fileLines, t.id, t.title)
                target    == found.line
                endIndex  == FindEndIndex(fileLines, target)
                read      == Did(t, "read", t.path)
            IN  [v |-> v,
                 t |-> IF target = -1 THEN Fail(read, "NotFound")
                       ELSE IF ~IsEventLine(fileLines[target + 1])
                       THEN Fail(read, "NotEventLine")
                       ELSE [read EXCEPT
                               !.pc = "write",
                               !.buf = JoinLines(RemoveLines(fileLines, target, endIndex)),
                               !.start = target, !.end = endIndex,
                               !.method = found.method]]
      [] t.pc = "write" ->
            [v |-> Write(v, t.path, t.buf), t |-> Done(Did(t, "write", t.path))]

\* sendEventToDelete and createDeleteEventInFile
SendStep(t, v) ==
    CASE t.pc = "call" ->
            [v |-> v,
             t |-> IF v[LedgerPath].exists THEN [t EXCEPT !.pc = "read"]
                   ELSE [t EXCEPT !.pc = "create"]]
      [] t.pc = "read" ->
            LET id == DeleteDateID(v[LedgerPath], t.now)
            IN  [v |-> v,
                 t |-> [Did(t, "read", LedgerPath) EXCEPT
                          !.pc = "write", !.id = id,
                          !.buf = AppendEntry(v[LedgerPath].content, t.event, id)]]
      [] t.pc = "create" ->
            \* vault.create throws when the file exists by now
            IF v[LedgerPath].exists
            THEN [v |-> v, t |-> Fail(t, "CreateFailed")]
            ELSE [v |-> Write(v, LedgerPath, <<>>),
                  t |-> [Did(t, "create", LedgerPath) EXCEPT
                           !.pc = "write", !.id = DeleteDateID(NoFile, t.now),
                           !.buf = AppendEntry(<<>>, t.event, DeleteDateID(NoFile, t.now))]]
      [] t.pc = "write" ->
            [v |-> Write(v, LedgerPath, t.buf), t |-> Done(Did(t, "write", LedgerPath))]

\* the timestamp of a ledger line can be read as YYYYMMDDHHmm
HasTimestamp(line) ==
    LET id == extractDeletedEventId(line)
    IN  Len(id) >= 12 /\ \A k \in 1..12 : IsDigit(id[k])

\* restoreDeletedEvent
RestoreStep(t, v, st) ==
    CASE t.pc = "call" ->
            [v |-> v,
             t |-> IF ~HasDigitRun14(t.id) THEN Fail(t, "InvalidId")
                   ELSE IF ~v[LedgerPath].exists THEN Fail(t, "FileNotFound")
                   ELSE [t EXCEPT !.pc = "read"]]
      [] t.pc = "read" ->
            LET fileContents == v[LedgerPath].content
                line == LedgerLine(fileContents, t.id)
            IN  [v |-> v,
                 t |-> [Did(t, "read", LedgerPath) EXCEPT
                          !.pc = "write", !.line = line,
                          !.buf = ReplaceFirstWithEmpty(fileContents, line)]]
      [] t.pc = "write" ->
            [v |-> Write(v, LedgerPath, t.buf),
             t |-> IF ~IsRecordLine(t.line)
                   THEN Done(Did(t, "write", LedgerPath))
                   ELSE [Did(t, "write", LedgerPath) EXCEPT !.pc = "lookup"]]
      [] t.pc = "lookup" ->
            \* after getAllDailyNotes: the note of the day the id of the line names
            IF ~HasTimestamp(t.line)
            THEN [v |-> v, t |-> Fail(t, "InvalidDate")]
            ELSE LET path == NotePathOfDay(Slice(extractDeletedEventId(t.line), 0, 8))
                 IN  [v |-> v,
                      t |-> [t EXCEPT !.path = path, !.event = RestoredLine(t.line),
                                      !.pc = IF v[path].exists THEN "readNote" ELSE "create"]]
      [] t.pc = "create" ->
            \* createDailyNote
            IF v[t.path].exists
            THEN [v |-> v, t |-> Fail(t, "CreateFailed")]
            ELSE [v |-> Write(v, t.path, <<>>),
                  t |-> [Did(t, "create", t.path) EXCEPT !.pc = "readNote"]]
      [] t.pc = "readNote" ->
            [v |-> v,
             t |-> [Did(t, "read", t.path) EXCEPT
                      !.pc = "writeNote",
                      !.buf = insertAfterHandler(t.event, v[t.path].content, st)]]
      [] t.pc = "writeNote" ->
            [v |-> Write(v, t.path, t.buf),
             t |-> [Done(Did(t, "write", t.path)) EXCEPT !.restored = TRUE]]

\* deleteForever
ForeverStep(t, v) ==
    CASE t.pc = "call" ->
            [v |-> v,
             t |-> IF ~HasDigitRun14(t.id) THEN Fail(t, "InvalidId")
                   ELSE IF ~v[LedgerPath].exists THEN Done(t)
                   ELSE [t EXCEPT !.pc = "read"]]
      [] t.pc = "read" ->
            LET fileContents == v[LedgerPath].content
                line == LedgerLine(fileContents, t.id)
                read == Did(t, "read", LedgerPath)
            IN  [v |-> v,
                 t |-> IF IsRecordLine(line)
                       THEN [read EXCEPT !.pc = "write", !.line = line,
                                         !.buf = ReplaceFirstWithEmpty(fileContents, line)]
                       ELSE Done([read EXCEPT !.line = line])]
      [] t.pc = "write" ->
            [v |-> Write(v, LedgerPath, t.buf), t |-> Done(Did(t, "write", LedgerPath))]

\* the record line an edit writes for the cleaned content. `notes` is a parameter
\* of changeEvent only: updateTimeIntervalOnly, updateEndDateOnly and
\* moveEventToNewDay read a name that nothing declares, which throws a
\* ReferenceError
NewLineFor(t, cleanContent) ==
    IF IsTaskType(t.eventType) /\ ~HasLeadingTime(t.title) /\ ~HasLeadingTime(t.event)
    THEN [err |-> "none",
          line |-> formatAllDayEvent(cleanContent, OriginalStartDate(t.id), t.eventStartMoment,
                                     t.eventEndMoment, t.eventType)]
    ELSE IF t.route = "allDay"
    THEN [err |-> "none",
          line |-> formatEventLine(cleanContent, t.eventStartMoment, t.eventEndMoment,
                                   t.eventType, t.notes)]
    ELSE IF t.route \in {"end", "move"} /\ SameDay(t.eventStartMoment, t.eventEndMoment)
    THEN [err |-> "none",
          line |-> formatSameDay(cleanContent, t.eventStartMoment, t.eventEndMoment,
                                 t.eventType)]
    ELSE [err |-> "ReferenceError", line |-> <<>>]

NewLineOf(t) == NewLineFor(t, cleanEvent(t.title, t.event))

\* what an edit does with the lines it read, the index it found and its new line
Located(t, fileLines, lineIndex, new) ==
    IF lineIndex = -1 THEN Fail(t, "NotFound")
    ELSE IF new.err # "none" THEN Fail([t EXCEPT !.start = lineIndex], new.err)
    ELSE [t EXCEPT
            !.pc = "write", !.start = lineIndex, !.newLine = new.line,
            !.line = fileLines[lineIndex + 1],
            !.buf = IF t.route = "move"
                    THEN JoinLines(SpliceLine(fileLines, lineIndex))
                    ELSE JoinLines(ReplaceLine(fileLines, lineIndex, new.line))]

\* the index an edit finds its record line at
LineIndexOf(t, fileLines) ==
    IF t.route = "time" THEN FindByContent(fileLines, t.title)
    ELSE findEventLine(fileLines, t.id, t.title, OriginalStartDate(t.id), t.eventType)

\* the lines an edit reads
ReadLines(t, fileLines) ==
    Located(Did(t, "read", t.path), fileLines, LineIndexOf(t, fileLines), NewLineOf(t))

\* changeEvent with updateTimeIntervalOnly, updateEndDateOnly and moveEventToNewDay
ChangeStep(t, v, st) ==
    CASE t.pc = "call" ->
            \* await getAllDailyNotes()
            [v |-> v, t |-> [t EXCEPT !.pc = "files"]]
      [] t.pc = "files" ->
            LET files  == {p \in Paths \ {LedgerPath} : v[p].exists}
                route  == Route(t)
                \* getDailyNote(originalStartDate, files) for a change of time only,
                \* app.vault.getFileByPath(originalPath) for the others
                source == IF route = "time" THEN NotePathOfDay(SubSeq(OriginalStartDate(t.id), 1, 8))
                          ELSE t.path
                found  == IF route = "time" THEN source \in files ELSE v[source].exists
                routed == [t EXCEPT !.route = route, !.files = files, !.path = source]
            IN  [v |-> v,
                 t |-> IF ~found THEN Fail(routed, "FileNotFound")
                       ELSE IF route # "move" THEN [routed EXCEPT !.pc = "read"]
                       ELSE IF NotePathOfDay(SubSeq(t.eventStartMoment, 1, 8)) \in files
                       THEN [routed EXCEPT
                               !.pc = "read",
                               !.target = NotePathOfDay(SubSeq(t.eventStartMoment, 1, 8))]
                       ELSE [routed EXCEPT
                               !.pc = "create",
                               !.target = NotePathOfDay(SubSeq(t.eventEndMoment, 1, 8))]]
      [] t.pc = "create" ->
            \* fileService.createDailyNote(eventEndMoment)
            IF v[t.target].exists
            THEN [v |-> v, t |-> Fail(t, "CreateFailed")]
            ELSE [v |-> Write(v, t.target, <<>>),
                  t |-> [Did(t, "create", t.target) EXCEPT !.pc = "read"]]
      [] t.pc = "read" ->
            [v |-> v, t |-> ReadLines(t, getAllLinesFromFile(v[t.path].content))]
      [] t.pc = "write" ->
            [v |-> Write(v, t.path, t.buf),
             t |-> IF t.route = "move" THEN [Did(t, "write", t.path) EXCEPT !.pc = "readTarget"]
                   ELSE Done(Did(t, "write", t.path))]
      [] t.pc = "readTarget" ->
            LET targetFileLines == getAllLinesFromFile(v[t.target].content)
                insertPosition  == findInsertPosition(targetFileLines, t.eventType, st)
            IN  [v |-> v,
                 t |-> [Did(t, "read", t.target) EXCEPT
                          !.pc = "writeTarget", !.end = insertPosition,
                          !.buf = JoinLines(InsertLine(targetFileLines, insertPosition, t.newLine))]]
      [] t.pc = "writeTarget" ->
            [v |-> Write(v, t.target, t.buf), t |-> Done(Did(t, "write", t.target))]

\* one resumption of a call
Step(t, v, st) ==
    CASE t.op = "delete"  -> DeleteStep(t, v)
      [] t.op = "send"    -> SendStep(t, v)
      [] t.op = "restore" -> RestoreStep(t, v, st)
      [] t.op = "forever" -> ForeverStep(t, v)
      [] t.op = "change"  -> ChangeStep(t, v, st)

\* a call that runs to its end with nothing else in between
RECURSIVE Run(_, _, _)
RECURSIVE Resume(_, _)
Run(t, v, st) ==
    IF t.pc = "done" THEN [t |-> t, v |-> v]
    ELSE Resume(Step(t, v, st), st)

\* the call goes on from where a step left it
Resume(r, st) == Run(r.t, r.v, st)

-----------------------------------------------------------------------------
(* Documents and inputs of the model *)

\* the 16 lines of the documented test file (DELETE_EVENT_TEST.md); the four
\* characters of its section heading are the elements u65E5 u7A0B u5B89 u6392
ExampleLines ==
    << <<"#", " ", "2", "0", "2", "5", "-", "0", "9", "-", "0", "1">>,
       <<>>,
       <<"#", "#", " ", "u65E5", "u7A0B", "u5B89", "u6392">>,
       <<>>,
       <<"-", " ", "0", "9", ":", "0", "0", "-", "1", "0", ":", "0", "0", " ", "c">>,
       <<"\t", "3", "3", "3", "3", "3">>,
       <<"-", " ", "[", " ", "]", " ", "b", " ", "TAKEOFF", " ", "2", "0", "2", "5", "-", "0",
          "9", "-", "1", "2", " ", "CAL", " ", "2", "0", "2", "5", "-", "0", "9", "-", "1",
          "3">>,
       <<"\t", "2">>,
       <<"\t">>,
       <<"\t", "-", " ", "[", " ", "]", " ", "t", "e", "s", "t", "2">>,
       <<"\t", "t", "e", "s", "t", "2">>,
       <<"-", " ", "[", " ", "]", " ", "a", " ", "TAKEOFF", " ", "2", "0", "2", "5", "-", "0",
          "9", "-", "1", "2", " ", "CAL", " ", "2", "0", "2", "5", "-", "0", "9", "-", "1",
          "3">>,
       <<"\t", "-", " ", "[", " ", "]", " ", "1">>,
       <<"\t", "1", "1", "1">>,
       <<"\t">>,
       <<"\t", "t", "e", "s", "t", "1">> >>

HeadingH == <<"#", " ", "H">>

HeadingS == <<"#", "#", " ", "S">>

Rec0900a == <<"-", " ", "0", "9", ":", "0", "0", " ", "a">>

Rec1000b == <<"-", " ", "1", "0", ":", "0", "0", " ", "b">>

Rec1100c == <<"-", " ", "1", "1", ":", "0", "0", " ", "c">>

NoteTask == <<"\t", "-", " ", "[", " ", "]", " ", "x">>

NoteB == <<"\t", "b">>

Blank == <<>>

HashTag == <<"#", "t", "a", "g">>

\* a second note: adjacent records, a note that looks like a task, a blank line
\* inside a note, a section heading between records and a tag line at the end
SmallLines ==
    <<HeadingH, Rec0900a, Rec1000b, NoteTask, Blank, NoteB, HeadingS, Rec1100c, HashTag>>

\* identifiers: YYYYMMDDHHmm00 and the ordinal of the record
Id0900n0 == <<"2", "0", "2", "5", "0", "9", "0", "1", "0", "9", "0", "0", "0", "0", "0", "0">>

Id1000n1 == <<"2", "0", "2", "5", "0", "9", "0", "1", "1", "0", "0", "0", "0", "0", "0", "1">>

Id0000n1 == <<"2", "0", "2", "5", "0", "9", "1", "2", "0", "0", "0", "0", "0", "0", "0", "1">>

Id0000n2 == <<"2", "0", "2", "5", "0", "9", "1", "2", "0", "0", "0", "0", "0", "0", "0", "2">>

Id1200 == <<"2", "0", "2", "5", "0", "9", "0", "1", "1", "2", "0", "0", "0", "0">>

IdShort == <<"2", "0", "2", "5", "0", "9", "0", "1", "0", "9", "0", "0", "0">>

IdAlpha ==
    <<"2", "0", "2", "5", "0", "9", "0", "1", "0", "9", "0", "0", "0", "0", "0", "1", "x">>

DeleteIds == {Id0900n0, Id1000n1, Id0000n1, Id0000n2, Id1200, IdShort, IdAlpha}

TitleA == <<"a">>

TitleB == <<"b">>

TitleC == <<"c">>

TitleZ == <<"z", "z">>

NoTitle == <<>>

DeleteTitles == {TitleA, TitleB, TitleC, TitleZ, NoTitle}

ExampleContent == JoinLines(ExampleLines)

SmallContent == JoinLines(SmallLines)

NoOp == NewTask("none", <<>>, "", <<>>, <<>>, <<>>)

NoTasks == <<>>

NoSettings == [InsertAfter |-> <<>>, ProcessEntriesBelow |-> <<>>]

-----------------------------------------------------------------------------
(* Deleting events, one call after the other *)

InitDelete ==
    /\ \E lines \in {ExampleLines, SmallLines} :
            vault = [EmptyVault EXCEPT ![Note1] = File(JoinLines(lines))]
    /\ pre = vault
    /\ last = NoOp
    /\ nops = 0
    /\ tasks = NoTasks
    /\ settings = NoSettings

\* what a call that has returned leaves behind
Returned(r) ==
    /\ pre' = vault
    /\ vault' = r.v
    /\ last' = r.t
    /\ nops' = nops + 1
    /\ UNCHANGED <<tasks, settings>>

\* a call made when no other call is in flight
Call(t) == Returned(Run(t, vault, settings))

Delete(eventId, eventPath, eventTitle) ==
    /\ nops < MaxOps
    /\ Call(NewTask("delete", eventId, eventPath, eventTitle, <<>>, <<>>))

NextDelete ==
    \E eventId \in DeleteIds, eventPath \in {Note1, Note2}, eventTitle \in DeleteTitles :
        Delete(eventId, eventPath, eventTitle)

SpecDelete == InitDelete /\ [][NextDelete]_vars

\* the moments at which events are sent to the ledger: YYYYMMDDHHmmss
Now1430 == <<"2", "0", "2", "5", "0", "9", "0", "1", "1", "4", "3", "0", "0", "0">>

Now1000 == <<"2", "0", "2", "5", "0", "9", "0", "2", "1", "0", "0", "0", "0", "0">>

Clock == {Now1430, Now1000}

HeadingDeleted == <<"#", " ", "D", "e", "l", "e", "t", "e", "d">>

Rec1200z == <<"-", " ", "1", "2", ":", "0", "0", " ", "z", "z">>

\* a ledger a user has put a heading in: the entry of "zz", an event that is in no
\* note any more, is its line 2
LedgerLines == <<HeadingDeleted, Rec1200z \o DeletedAtTag \o Now1430 \o <<"2">> >>

\* ledger ids: a timestamp and the 1-based line number
LedgerId(n) == Now1430 \o Decimal(n)

LedgerIds == {LedgerId(1), LedgerId(2), LedgerId(3), Id1200, IdShort, IdAlpha}

SendEvents == {Rec0900a, Rec1000b}

-----------------------------------------------------------------------------
(* The ledger, one call after the other *)

InitLedger ==
    /\ \E ledger \in {NoFile, File(JoinLines(LedgerLines))} :
            vault = [EmptyVault EXCEPT ![Note1] = File(SmallContent), ![LedgerPath] = ledger]
    /\ pre = vault
    /\ last = NoOp
    /\ nops = 0
    /\ tasks = NoTasks
    /\ settings = NoSettings

Send(event, now) ==
    /\ nops < MaxOps
    /\ Call(NewTask("send", <<>>, LedgerPath, <<>>, event, now))

Restore(deletedEventid) ==
    /\ nops < MaxOps
    /\ Call(NewTask("restore", deletedEventid, LedgerPath, <<>>, <<>>, <<>>))

Forever(deletedEventid) ==
    /\ nops < MaxOps
    /\ Call(NewTask("forever", deletedEventid, LedgerPath, <<>>, <<>>, <<>>))

NextLedger ==
    \/ \E event \in SendEvents, now \in Clock : Send(event, now)
    \/ \E deletedEventid \in LedgerIds : Restore(deletedEventid)
    \/ \E deletedEventid \in LedgerIds : Forever(deletedEventid)

SpecLedger == InitLedger /\ [][NextLedger]_vars

-----------------------------------------------------------------------------
(* Editing events, one call after the other *)

Day1 == <<"2", "0", "2", "5", "0", "9", "0", "1">>

Day2 == <<"2", "0", "2", "5", "0", "9", "0", "2">>

Day12 == <<"2", "0", "2", "5", "0", "9", "1", "2">>

TaskW == <<"-", " ", "[", " ", "]", " ", "w">>

Rec0800d == <<"-", " ", "0", "8", ":", "0", "0", " ", "d">>

TitleW == <<"w">>

TitleQ == <<"q">>

ContentE == <<"e">>

IdTaskW == <<"2", "0", "2", "5", "0", "9", "0", "1", "0", "0", "0", "0", "0", "0", "0", "3">>

\* the note of day 1 as the edits find it
ChangeLines == <<HeadingH, Rec0900a, NoteTask, Rec1000b, TaskW>>

\* a moment of a day: YYYYMMDD and HHmm
At(day, hour, minute) == day \o hour \o minute

\* the events an edit is asked for: "a" and the task "w" are in the note, "zz"
\* and the task "q" are not
Subjects ==
    {[eventid |-> Id0900n0, originalContent |-> TitleA, eventType |-> "default",
      originalEndDate |-> At(Day1, <<"1", "0">>, <<"0", "0">>)],
     [eventid |-> Id1200, originalContent |-> TitleZ, eventType |-> "default",
      originalEndDate |-> At(Day1, <<"1", "3">>, <<"0", "0">>)],
     [eventid |-> IdTaskW, originalContent |-> TitleW, eventType |-> "TASK-TODO",
      originalEndDate |-> At(Day1, <<"0", "0">>, <<"0", "0">>)],
     [eventid |-> IdTaskW, originalContent |-> TitleQ, eventType |-> "TASK-TODO",
      originalEndDate |-> At(Day1, <<"0", "0">>, <<"0", "0">>)]}

\* the new start and end of an edit: another time, a later end day, another day,
\* another day with a later end day
Timings ==
    {[eventStartDate |-> At(Day1, <<"0", "9">>, <<"3", "0">>),
      eventEndDate |-> At(Day1, <<"1", "0">>, <<"3", "0">>)],
     [eventStartDate |-> At(Day1, <<"0", "9">>, <<"0", "0">>),
      eventEndDate |-> At(Day2, <<"1", "0">>, <<"0", "0">>)],
     [eventStartDate |-> At(Day2, <<"0", "9">>, <<"0", "0">>),
      eventEndDate |-> At(Day2, <<"1", "0">>, <<"0", "0">>)],
     [eventStartDate |-> At(Day2, <<"0", "9">>, <<"0", "0">>),
      eventEndDate |-> At(Day12, <<"1", "0">>, <<"0", "0">>)]}

NoNotes == <<>>

InitChange ==
    /\ \E note2 \in {NoFile, File(Rec0800d)} :
            vault = [EmptyVault EXCEPT ![Note1] = File(JoinLines(ChangeLines)), ![Note2] = note2]
    /\ pre = vault
    /\ last = NoOp
    /\ nops = 0
    /\ tasks = NoTasks
    /\ settings = NoSettings

Change(eventid, originalContent, content, eventType, eventStartDate, eventEndDate, originalEndDate, originalPath, notes) ==
    /\ nops < MaxOps
    /\ Call(NewChange(eventid, originalContent, content, eventType, eventStartDate,
                      eventEndDate, originalEndDate, originalPath, notes))

NextChange ==
    \/ \E e \in Subjects, when \in Timings :
          Change(e.eventid, e.originalContent, ContentE, e.eventType, when.eventStartDate,
                 when.eventEndDate, e.originalEndDate, Note1, NoNotes)
    \/ \E eventId \in {Id0900n0, Id1200}, eventTitle \in {TitleA, TitleZ} :
          Delete(eventId, Note1, eventTitle)

SpecChange == InitChange /\ [][NextChange]_vars

-----------------------------------------------------------------------------
(* Calls in flight together: each runs from one await to the next, and the    *)
(* host resumes them in any order                                             *)

InitTasks ==
    /\ vault = [EmptyVault EXCEPT ![Note1] = File(SmallContent),
                                  ![LedgerPath] = File(JoinLines(LedgerLines))]
    /\ pre = vault
    /\ last = NoOp
    /\ nops = 0
    /\ tasks = NoTasks
    /\ settings = NoSettings

\* the call has run up to its first await
Started(r) ==
    /\ tasks' = Append(tasks, r.t)
    /\ vault' = r.v
    /\ UNCHANGED <<pre, last, nops, settings>>

StartDelete(eventId, eventPath, eventTitle) ==
    /\ Len(tasks) < MaxTasks
    /\ Started(Step(NewTask("delete", eventId, eventPath, eventTitle, <<>>, <<>>),
                    vault, settings))

StartSend(event, now) ==
    /\ Len(tasks) < MaxTasks
    /\ Started(Step(NewTask("send", <<>>, LedgerPath, <<>>, event, now), vault, settings))

StartRestore(deletedEventid) ==
    /\ Len(tasks) < MaxTasks
    /\ Started(Step(NewTask("restore", deletedEventid, LedgerPath, <<>>, <<>>, <<>>),
                    vault, settings))

StartForever(deletedEventid) ==
    /\ Len(tasks) < MaxTasks
    /\ Started(Step(NewTask("forever", deletedEventid, LedgerPath, <<>>, <<>>, <<>>),
                    vault, settings))

\* task i has gone on to its next await, or to its end
Stepped(i, r) ==
    /\ tasks' = [tasks EXCEPT ![i] = r.t]
    /\ vault' = r.v
    /\ UNCHANGED <<pre, last, nops, settings>>

\* the host resumes the task whose awaited read or write is done
Continue(i) ==
    /\ tasks[i].pc # "done"
    /\ Stepped(i, Step(tasks[i], vault, settings))

NextTasks ==
    \/ \E e \in {<<Id0900n0, TitleA>>, <<Id1000n1, TitleB>>} : StartDelete(e[1], Note1, e[2])
    \/ \E event \in SendEvents : StartSend(event, Now1430)
    \/ StartRestore(LedgerId(2))
    \/ StartForever(LedgerId(2))
    \/ \E i \in 1..Len(tasks) : Continue(i)

SpecTasks == InitTasks /\ [][NextTasks]_vars

-----------------------------------------------------------------------------
(* Editing records that have notes below them *)

\* the note of day 1: the task "w" and the event "a" each have a continuation line
EditLines == <<HeadingH, TaskW, NoteB, Rec0900a, NoteTask, Rec1000b>>

ContentTimed == <<"1", "0", ":", "0", "0", " ", "e">>

NotesN == <<"n">>

\* the events an edit is asked for: "a", "a" as an event that ended on day 2, and
\* the task "w"
EditSubjects ==
    {[eventid |-> Id0900n0, originalContent |-> TitleA, eventType |-> "default",
      originalEndDate |-> At(Day1, <<"1", "0">>, <<"0", "0">>)],
     [eventid |-> Id0900n0, originalContent |-> TitleA, eventType |-> "default",
      originalEndDate |-> At(Day2, <<"1", "0">>, <<"0", "0">>)],
     [eventid |-> IdTaskW, originalContent |-> TitleW, eventType |-> "TASK-TODO",
      originalEndDate |-> At(Day1, <<"0", "0">>, <<"0", "0">>)]}

\* the new content of an edit and the notes given with it
EditTexts ==
    {[content |-> ContentE, notes |-> NoNotes],
     [content |-> ContentE, notes |-> NotesN],
     [content |-> ContentTimed, notes |-> NotesN]}

InitEdit ==
    /\ \E note2 \in {NoFile, File(Rec0800d)} :
            vault = [EmptyVault EXCEPT ![Note1] = File(JoinLines(EditLines)), ![Note2] = note2]
    /\ pre = vault
    /\ last = NoOp
    /\ nops = 0
    /\ tasks = NoTasks
    /\ settings = NoSettings

NextEdit ==
    \E e \in EditSubjects, when \in Timings, text \in EditTexts :
        Change(e.eventid, e.originalContent, text.content, e.eventType, when.eventStartDate,
               when.eventEndDate, e.originalEndDate, Note1, text.notes)

SpecEdit == InitEdit /\ [][NextEdit]_vars

-----------------------------------------------------------------------------
(* Edits in flight: a move is seen between its awaits *)

InitMove ==
    /\ \E note2 \in {NoFile, File(Rec0800d)} :
            vault = [EmptyVault EXCEPT ![Note1] = File(JoinLines(EditLines)), ![Note2] = note2]
    /\ pre = vault
    /\ last = NoOp
    /\ nops = 0
    /\ tasks = NoTasks
    /\ settings = NoSettings

StartChange(eventid, originalContent, content, eventType, eventStartDate, eventEndDate, originalEndDate, originalPath, notes) ==
    /\ Len(tasks) < MaxTasks
    /\ Started(Step(NewChange(eventid, originalContent, content, eventType, eventStartDate,
                              eventEndDate, originalEndDate, originalPath, notes),
                    vault, settings))

NextMove ==
    \/ \E e \in EditSubjects, when \in Timings :
          StartChange(e.eventid, e.originalContent, ContentE, e.eventType, when.eventStartDate,
                      when.eventEndDate, e.originalEndDate, Note1, NoNotes)
    \/ \E i \in 1..Len(tasks) : Continue(i)

SpecMove == InitMove /\ [][NextMove]_vars

-----------------------------------------------------------------------------
(* The formatters and cleanEvent, applied to contents, moments, types and notes *)

Day3 == <<"2", "0", "2", "5", "0", "9", "0", "3">>

Lunch == <<"L", "u", "n", "c", "h">>

Trip == <<"T", "r", "i", "p">>

\* a content that ends with a block id
ContentBlockId == <<"e", " ", "^", "a", "b">>

FormatContents == {Lunch, Trip, ContentE, ContentBlockId}

\* start and end of the same day, of different days, and the same moment
FormatMoments ==
    {[start |-> At(Day1, <<"1", "2">>, <<"0", "0">>), end |-> At(Day1, <<"1", "3">>, <<"0", "0">>)],
     [start |-> At(Day1, <<"0", "0">>, <<"0", "0">>), end |-> At(Day3, <<"0", "0">>, <<"0", "0">>)],
     [start |-> At(Day2, <<"0", "9">>, <<"0", "5">>), end |-> At(Day2, <<"0", "9">>, <<"0", "5">>)]}

EventTypes == {"default", "TASK-TODO", "TASK-DONE"}

\* no notes, white space only, one line, two lines with a blank line between them
\* and white space around
FormatNotes ==
    {NoNotes,
     <<" ", "\n">>,
     <<"n">>,
     <<" ", "n", "\n", "\n", "\t", "m", "\n">>}

\* the formatters are pure: a call leaves the vault alone
Format(cleanContent, startMoment, endMoment, eventType, notes) ==
    /\ last' = [op |-> "format", cleanContent |-> cleanContent, startMoment |-> startMoment,
                endMoment |-> endMoment, eventType |-> eventType, notes |-> notes,
                out |-> formatEventLine(cleanContent, startMoment, endMoment, eventType, notes)]
    /\ UNCHANGED <<vault, pre, nops, tasks, settings>>

\* formatEventLine(cleanEvent(c, line), s, e, t) for the line of the last call
Reformat ==
    /\ last.op = "format"
    /\ last.notes = NoNotes
    /\ last' = [op |-> "reformat", cleanContent |-> cleanEvent(last.cleanContent, last.out),
                startMoment |-> last.startMoment, endMoment |-> last.endMoment,
                eventType |-> last.eventType, notes |-> NoNotes, line |-> last.out,
                out |-> formatEventLine(cleanEvent(last.cleanContent, last.out),
                                        last.startMoment, last.endMoment, last.eventType,
                                        NoNotes)]
    /\ UNCHANGED <<vault, pre, nops, tasks, settings>>

FormatAllDay(cleanContent, originalStartDate, eventStartMoment, eventEndMoment, eventType) ==
    /\ last' = [op |-> "formatAllDay", cleanContent |-> cleanContent,
                originalStartDate |-> originalStartDate, startMoment |-> eventStartMoment,
                endMoment |-> eventEndMoment, eventType |-> eventType,
                out |-> formatAllDayEvent(cleanContent, originalStartDate, eventStartMoment,
                                          eventEndMoment, eventType)]
    /\ UNCHANGED <<vault, pre, nops, tasks, settings>>

InitFormat ==
    /\ vault = EmptyVault
    /\ pre = vault
    /\ last = NoOp
    /\ nops = 0
    /\ tasks = NoTasks
    /\ settings = NoSettings

NextFormat ==
    \/ \E c \in FormatContents, m \in FormatMoments, type \in EventTypes, notes \in FormatNotes :
          Format(c, m.start, m.end, type, notes)
    \/ Reformat
    \/ \E c \in FormatContents, m \in FormatMoments, type \in EventTypes, day \in {Day1, Day2} :
          FormatAllDay(c, At(day, <<"0", "0">>, <<"0", "0">>), m.start, m.end, type)

SpecFormat == InitFormat /\ [][NextFormat]_vars

-----------------------------------------------------------------------------
(* findInsertPosition, applied to documents under the settings of the plugin *)

TextX == <<"x">>

\* "- Trip TAKEOFF 2025-09-01 CAL 2025-09-03"
TripLine ==
    <<"-", " ", "T", "r", "i", "p", " ", "TAKEOFF", " ", "2", "0", "2", "5", "-", "0", "9", "-",
      "0", "1", " ", "CAL", " ", "2", "0", "2", "5", "-", "0", "9", "-", "0", "3">>

\* documents without and with record-like lines, section headings, blank lines
\* and a tag line
InsertDocuments ==
    {<<>>,
     <<Blank>>,
     <<TextX>>,
     <<HashTag, TextX>>,
     <<TextX, HeadingH, Blank, TextX>>,
     <<HeadingH, TextX, HeadingS, Blank, TextX, HashTag>>,
     <<HeadingH, Rec0900a, NoteTask, HeadingS, TextX>>,
     <<HeadingH, TripLine, Blank, HeadingS>>,
     <<HeadingS, TaskW, NoteB, HashTag, Blank>>}

\* pluginSetting.InsertAfter and pluginSetting.ProcessEntriesBelow: not set, set
\* to the heading "## S", to the tag line, to both, to white space and a text no
\* document has
InsertSettings ==
    {NoSettings,
     [InsertAfter |-> HeadingS, ProcessEntriesBelow |-> <<>>],
     [InsertAfter |-> <<>>, ProcessEntriesBelow |-> HashTag],
     [InsertAfter |-> HeadingS, ProcessEntriesBelow |-> HashTag],
     [InsertAfter |-> <<" ">>, ProcessEntriesBelow |-> <<"q">>]}

InitInsert ==
    /\ vault = EmptyVault
    /\ pre = vault
    /\ last = NoOp
    /\ nops = 0
    /\ tasks = NoTasks
    /\ settings \in InsertSettings

\* findInsertPosition is pure: it reads the lines and the settings
Insert(fileLines, eventType) ==
    /\ last' = [op |-> "insert", fileLines |-> fileLines, eventType |-> eventType,
                out |-> findInsertPosition(fileLines, eventType, settings)]
    /\ UNCHANGED <<vault, pre, nops, tasks, settings>>

NextInsert ==
    \E fileLines \in InsertDocuments, eventType \in EventTypes : Insert(fileLines, eventType)

SpecInsert == InitInsert /\ [][NextInsert]_vars

-----------------------------------------------------------------------------
(* The resolvers of the edit flows, applied to documents and events *)

HeadingB == <<"#", " ", "b">>

\* "20250901100000_L2": an id that carries the line number 2
Id1000L2 ==
    <<"2", "0", "2", "5", "0", "9", "0", "1", "1", "0", "0", "0", "0", "0", "_", "L", "2">>

\* "- 10:30 b": the record "b" after its time was changed
Rec1030b == <<"-", " ", "1", "0", ":", "3", "0", " ", "b">>

\* documents in which a title also occurs in a note line or a heading above the
\* record, and documents in which it does not
ResolveDocuments ==
    {EditLines,
     ChangeLines,
     <<HeadingB, Rec0900a, Rec1000b>>,
     <<HeadingH, Rec0900a, NoteB, Rec1030b>>,
     <<Rec0900a, Rec1000b, Rec1100c>>,
     <<HeadingH, TaskW, NoteTask, Blank, Rec1000b>>}

\* the id and the original content of the event to find
ResolveEvents ==
    {[eventid |-> Id0900n0, originalContent |-> TitleA],
     [eventid |-> Id1000n1, originalContent |-> TitleB],
     [eventid |-> Id1000L2, originalContent |-> TitleB],
     [eventid |-> IdTaskW, originalContent |-> TitleW],
     [eventid |-> Id1200, originalContent |-> TitleZ],
     [eventid |-> Id1000n1, originalContent |-> TitleC]}

InitResolve ==
    /\ vault = EmptyVault
    /\ pre = vault
    /\ last = NoOp
    /\ nops = 0
    /\ tasks = NoTasks
    /\ settings = NoSettings

\* findEventLine, as changeEvent, updateEndDateOnly and moveEventToNewDay call it
FindEventLine(fileLines, eventid, originalContent, eventType) ==
    /\ last' = [op |-> "findEventLine", fileLines |-> fileLines, eventid |-> eventid,
                originalContent |-> originalContent, eventType |-> eventType,
                out |-> findEventLine(fileLines, eventid, originalContent,
                                      OriginalStartDate(eventid), eventType)]
    /\ UNCHANGED <<vault, pre, nops, tasks, settings>>

\* the lookup loop of updateTimeIntervalOnly
Lookup(fileLines, eventid, originalContent) ==
    /\ last' = [op |-> "lookup", fileLines |-> fileLines, eventid |-> eventid,
                originalContent |-> originalContent, eventType |-> "default",
                out |-> FindByContent(fileLines, originalContent)]
    /\ UNCHANGED <<vault, pre, nops, tasks, settings>>

NextResolve ==
    \/ \E fileLines \in ResolveDocuments, e \in ResolveEvents, eventType \in EventTypes :
          FindEventLine(fileLines, e.eventid, e.originalContent, eventType)
    \/ \E fileLines \in ResolveDocuments, e \in ResolveEvents :
          Lookup(fileLines, e.eventid, e.originalContent)

SpecResolve == InitResolve /\ [][NextResolve]_vars

-----------------------------------------------------------------------------
(* Moving a record into a note that has records with notes *)

\* the notes of the day the record is moved to
TargetNotes ==
    {<<Rec0800d, NoteB>>,
     <<HeadingH, Rec0800d, NoteTask, NoteB, HeadingS>>,
     <<HeadingH, Rec0800d, Rec1100c, HeadingS, TextX>>,
     <<HeadingH, TextX>>}

InitInto ==
    /\ \E note2 \in TargetNotes :
            vault = [EmptyVault EXCEPT ![Note1] = File(JoinLines(EditLines)),
                                       ![Note2] = File(JoinLines(note2))]
    /\ pre = vault
    /\ last = NoOp
    /\ nops = 0
    /\ tasks = NoTasks
    /\ settings = NoSettings

SpecInto == InitInto /\ [][NextEdit]_vars

-----------------------------------------------------------------------------
(* EventCreatePrompt: the modal that asks for a new event. Dates are minutes; *)
(* the modal object is kept in `last`, with the handler that ran last in op.  *)

\* a preset that is not given
NoDate == -1

NoInputGiven == "No input given."

\* resolve or reject of the promise made in the constructor: the first call
\* settles it, a later one changes nothing
Settle(m, state, value) ==
    IF m.promise = "pending"
    THEN [m EXCEPT !.promise = state, !.value = value, !.settles = @ + 1]
    ELSE [m EXCEPT !.settles = @ + 1]

\* new EventCreatePrompt(app, header, placeholder, value, presetStartDate,
\* presetEndDate), made at the time now
NewPrompt(value, presetStartDate, presetEndDate, now) ==
    LET startDate == IF presetStartDate # NoDate THEN presetStartDate ELSE now
    IN  [op |-> "Prompt", content |-> value, notes |-> <<>>,
         startDate |-> startDate,
         endDate |-> IF presetEndDate # NoDate THEN presetEndDate ELSE startDate + 60,
         didSubmit |-> FALSE, isOpen |-> TRUE,
         promise |-> "pending", value |-> <<>>, settles |-> 0]

\* a resolveInput that takes every close for a submit
resolveInputAlways(m) ==
    Settle(m, "resolved", [content |-> m.content, startDate |-> m.startDate,
                           endDate |-> m.endDate, notes |-> m.notes])

resolveInput(m) ==
    IF ~m.didSubmit THEN Settle(m, "rejected", NoInputGiven)
    ELSE Settle(m, "resolved", [content |-> m.content, startDate |-> m.startDate,
                                endDate |-> m.endDate, notes |-> m.notes])

\* close() of the Modal: the modal is taken down and onClose runs
onClose(m) == resolveInput([m EXCEPT !.isOpen = FALSE])

submit(m) ==
    IF m.content = <<>> THEN m
    ELSE onClose([m EXCEPT !.didSubmit = TRUE])

cancel(m) == onClose(m)

\* the onChange of the start picker
startDateChanged(m, date) ==
    IF m.endDate < date
    THEN [m EXCEPT !.startDate = date, !.endDate = date + 60]
    ELSE [m EXCEPT !.startDate = date]

\* the onChange of the end picker
endDateChanged(m, date) == [m EXCEPT !.endDate = date]

\* the dates the pickers are set to, and the time the modal is made at
PromptDates == {0, 30, 60, 120}

PromptNow == 45

\* presetStartDate and presetEndDate: none, a start only, a start and an end
Presets ==
    {[start |-> NoDate, end |-> NoDate], [start |-> 0, end |-> NoDate],
     [start |-> 60, end |-> 120], [start |-> 60, end |-> 60]}

InitPrompt ==
    /\ vault = EmptyVault
    /\ pre = vault
    /\ \E value \in {<<>>, ContentE}, preset \in Presets :
          last = NewPrompt(value, preset.start, preset.end, PromptNow)
    /\ nops = 0
    /\ tasks = NoTasks
    /\ settings = NoSettings

\* what a handler leaves behind
Handled(op, m) ==
    /\ last' = [m EXCEPT !.op = op]
    /\ UNCHANGED <<vault, pre, nops, tasks, settings>>

\* the user types into the content field of the open modal
ContentChanged(value) ==
    /\ last.isOpen
    /\ Handled("content", [last EXCEPT !.content = value])

\* the user types into the notes field
NotesChanged(value) ==
    /\ last.isOpen
    /\ Handled("notes", [last EXCEPT !.notes = value])

StartChanged(date) ==
    /\ last.isOpen
    /\ Handled("start", startDateChanged(last, date))

EndChanged(date) ==
    /\ last.isOpen
    /\ Handled("end", endDateChanged(last, date))

\* the Create button, or Enter in the content field
Submit ==
    /\ last.isOpen
    /\ Handled("submit", submit(last))

\* the Cancel button
Cancel ==
    /\ last.isOpen
    /\ Handled("cancel", cancel(last))

\* Escape, or a click outside the modal: the host closes it
Close ==
    /\ last.isOpen
    /\ Handled("close", onClose(last))

NextPrompt ==
    \/ \E value \in {<<>>, ContentE} : ContentChanged(value)
    \/ \E value \in {<<>>, NotesN} : NotesChanged(value)
    \/ \E date \in PromptDates : StartChanged(date)
    \/ \E date \in PromptDates : EndChanged(date)
    \/ Submit
    \/ Cancel
    \/ Close

SpecPrompt == InitPrompt /\ [][NextPrompt]_vars

-----------------------------------------------------------------------------
(* What the last operation was, for the properties below *)

Deleted == last.op = "delete" /\ last.err = "none"

\* the lines of the note the last operation addressed, before and after it
OldLines == getAllLinesFromFile(pre[last.path].content)

NewLines == getAllLinesFromFile(vault[last.path].content)

\* the least element of a non-empty set of integers
MinOf(S) == CHOOSE x \in S : \A y \in S : x <= y

\* the strategies, stated on their own: the set of lines each one accepts
TitleLines(lines, title) ==
    {i \in 0..(Len(lines) - 1) :
        /\ title # <<>>
        /\ Len(lines[i + 1]) >= 2 /\ lines[i + 1][1] = "-" /\ lines[i + 1][2] = " "
        /\ Includes(lines[i + 1], title)}

TimeLines(lines, id) ==
    {i \in 0..(Len(lines) - 1) :
        /\ Len(lines[i + 1]) >= 2 /\ lines[i + 1][1] = "-" /\ lines[i + 1][2] = " "
        /\ Includes(lines[i + 1], <<id[9], id[10], ":", id[11], id[12]>>)}

RecordStarts(lines) ==
    {i \in 0..(Len(lines) - 1) :
        Len(lines[i + 1]) >= 2 /\ lines[i + 1][1] = "-" /\ lines[i + 1][2] = " "}

\* the line whose 0-based rank among the record-start lines is the number written
\* from character 14 of the identifier on
OrdinalLines(lines, id) ==
    IF Len(id) <= 14 THEN {}
    ELSE {i \in RecordStarts(lines) :
            Cardinality({j \in RecordStarts(lines) : j < i})
                = DigitsValue(SubSeq(id, 15, Len(id)), 0)}

-----------------------------------------------------------------------------
(* C1 *)

\* the document written by a delete that resolved to start s and end e, line by line
SpanRemoved(old, new, s, e) ==
    LET n == e - s + 1
    IN  /\ 0 <= s /\ s <= e /\ e <= Len(old) - 1
        /\ IF Len(old) = n
           THEN new = <<<<>>>>
           ELSE /\ Len(new) = Len(old) - n
                /\ \A i \in 0..(s - 1) : new[i + 1] = old[i + 1]
                /\ \A i \in s..(Len(new) - 1) : new[i + 1] = old[i + n + 1]

ExampleWithout(from, to) ==
    [i \in 1..(16 - (to - from + 1)) |->
        IF i <= from THEN ExampleLines[i] ELSE ExampleLines[i + (to - from + 1)]]

\* C1: a successful deleteEventFromDailyNote that resolved to record-start line s
\* with span end e writes lines[0..s-1] followed by lines[e+1..] and touches no
\* other document; in the documented 16-line file deleting "b" removes lines
\* 6-10, deleting "c" lines 4-5 and deleting "a" lines 11-15.
C1_DeleteRemovesSpan ==
    Deleted =>
        /\ SpanRemoved(OldLines, NewLines, last.start, last.end)
        /\ \A p \in Paths \ {last.path} : vault[p] = pre[p]
        /\ (pre[last.path].content = ExampleContent /\ last.title = TitleB)
              => /\ last.start = 6 /\ last.end = 10
                 /\ vault[last.path].content = JoinLines(ExampleWithout(6, 10))
        /\ (pre[last.path].content = ExampleContent /\ last.title = TitleC)
              => /\ last.start = 4 /\ last.end = 5
                 /\ vault[last.path].content = JoinLines(ExampleWithout(4, 5))
        /\ (pre[last.path].content = ExampleContent /\ last.title = TitleA)
              => /\ last.start = 11 /\ last.end = 15
                 /\ vault[last.path].content = JoinLines(ExampleWithout(11, 15))

\* "b" has been deleted from the documented file: "c" is followed by "a"
C1_Witness ==
    /\ Deleted
    /\ pre[last.path].content = ExampleContent
    /\ last.title = TitleB
    /\ Len(NewLines) = 11
    /\ NewLines[6] = ExampleLines[6]
    /\ NewLines[7] = ExampleLines[12]

-----------------------------------------------------------------------------
(* C2 *)

\* the (identifier, title) pairs of the records of the two notes
KnownEvents ==
    {<<Id0900n0, TitleA>>, <<Id1000n1, TitleB>>, <<Id0900n0, TitleC>>,
     <<Id0000n1, TitleB>>, <<Id0000n2, TitleA>>}

\* a record with this title starts at line i (0-based) of the lines
IsRecordOf(lines, i, title) ==
    /\ lines[i + 1][1] = "-" /\ lines[i + 1][2] = " "
    /\ Includes(lines[i + 1], title)

HasRecord(lines, title) ==
    \E i \in 0..(Len(lines) - 1) : Len(lines[i + 1]) >= 2 /\ IsRecordOf(lines, i, title)

\* C2: the resolver never returns a wrong index: called with the identifier and
\* title of a record, deleteEventFromDailyNote acts on the record-start line of
\* that record, and ends with the not-found error when the record is not in the
\* document (any more).
C2_ResolverNeverWrong ==
    (/\ last.op = "delete"
     /\ <<last.id, last.title>> \in KnownEvents
     /\ pre[last.path].exists)
        => IF HasRecord(OldLines, last.title)
           THEN last.err = "none" /\ IsRecordOf(OldLines, last.start, last.title)
           ELSE last.err = "NotFound"

-----------------------------------------------------------------------------
(* C3 *)

\* no line of the document holds the title, nor the hour and minute of the id
Unlocatable(lines, id, title) ==
    \A i \in 1..Len(lines) :
        /\ ~Includes(lines[i], title)
        /\ ~Includes(lines[i], <<id[10], ":", id[11], id[12]>>)

\* what a call did to the vault: the documents it created or wrote
Mutations(t) == {k \in 1..Len(t.io) : t.io[k][1] \in {"create", "write"}}

\* C3: when the record line cannot be located, deleteEventFromDailyNote and every
\* edit path of changeEvent (all-day in place, updateTimeIntervalOnly,
\* updateEndDateOnly, moveEventToNewDay) end with the not-found error and leave the
\* document store unchanged: the failed call wrote and created no document.
C3_NotFoundLeavesStoreUnchanged ==
    /\ (/\ last.op = "delete"
        /\ pre[last.path].exists
        /\ Len(last.id) >= 14 /\ \A k \in 1..Len(last.id) : last.id[k] \in Digits
        /\ TitleLines(OldLines, last.title) = {}
        /\ TimeLines(OldLines, last.id) = {}
        /\ OrdinalLines(OldLines, last.id) = {})
            => last.err = "NotFound" /\ vault = pre /\ Mutations(last) = {}
    /\ (/\ last.op = "change"
        /\ pre[last.path].exists
        /\ Unlocatable(OldLines, last.id, last.title))
            => last.err = "NotFound" /\ vault = pre /\ Mutations(last) = {}

-----------------------------------------------------------------------------
(* C4 *)

\* C4: deleteEventFromDailyNote resolves by title, then by the HH:MM of the
\* identifier, then by the ordinal, and the first strategy that finds a line
\* wins: the line deleted is the title strategy's whenever that one finds a line.
C4_TitleThenTimeThenOrdinal ==
    (last.op = "delete" /\ last.err \in {"none", "NotFound"}) =>
        LET byTitle == TitleLines(OldLines, last.title)
            byTime  == TimeLines(OldLines, last.id)
            byOrd   == OrdinalLines(OldLines, last.id)
        IN  IF byTitle # {} THEN last.err = "none" /\ last.start = MinOf(byTitle)
            ELSE IF byTime # {} THEN last.err = "none" /\ last.start = MinOf(byTime)
            ELSE IF byOrd # {} THEN last.err = "none" /\ last.start = MinOf(byOrd)
            ELSE last.err = "NotFound"

\* the title strategy and the ordinal strategy select different lines, and the
\* title strategy's line was deleted
C4_Witness ==
    /\ Deleted
    /\ TitleLines(OldLines, last.title) # {}
    /\ OrdinalLines(OldLines, last.id) # {}
    /\ MinOf(TitleLines(OldLines, last.title)) # MinOf(OrdinalLines(OldLines, last.id))
    /\ last.start = MinOf(TitleLines(OldLines, last.title))

-----------------------------------------------------------------------------
(* C5 *)

\* a record-start or a section heading, character by character
IsStopLine(line) ==
    \/ Len(line) >= 2 /\ line[1] = "-" /\ line[2] = " "
    \/ \E n \in 1..(Len(line) - 1) : line[n + 1] = " " /\ \A k \in 1..n : line[k] = "#"

\* C5: the span of the record at line s ends just before the first later line
\* that is a record-start or a section heading, or at the last line of the
\* document; blank and tab-indented lines never end it, and end = s when line
\* s+1 is a record-start.
C5_SpanEnd ==
    Deleted =>
        LET s == last.start
            e == last.end
            stops == {k \in (s + 1)..(Len(OldLines) - 1) : IsStopLine(OldLines[k + 1])}
        IN  /\ e = (IF stops = {} THEN Len(OldLines) - 1 ELSE MinOf(stops) - 1)
            /\ \A k \in (s + 1)..(Len(OldLines) - 1) :
                  (\A j \in (s + 1)..k : OldLines[j + 1] = <<>> \/ OldLines[j + 1][1] = "\t")
                      => k <= e
            /\ (s + 1 <= Len(OldLines) - 1
                /\ Len(OldLines[s + 2]) >= 2
                /\ OldLines[s + 2][1] = "-" /\ OldLines[s + 2][2] = " ") => e = s

\* a span with a blank line and a tab-indented "- [ ] x" line in it, ended by a
\* section heading
C5_Witness ==
    /\ Deleted
    /\ pre[last.path].content = SmallContent
    /\ last.start = 2 /\ last.end = 5
    /\ OldLines[4] = NoteTask /\ OldLines[5] = Blank
    /\ OldLines[7] = HeadingS
    /\ Len(NewLines) = 5 /\ NewLines[3] = HeadingS

-----------------------------------------------------------------------------
(* C6 *)

\* the same call, made again
Again(t) == [t EXCEPT !.pc = "call", !.err = "none", !.io = <<>>]

\* the vault after the call a and then the call b, one after the other
OneAfterTheOther(a, b) ==
    Run(Again(b), Run(Again(a), pre, settings).v, settings).v

\* C6: each single-document operation is atomic with respect to the other tasks of
\* the host: when two of them (two deleteEventFromDailyNote calls, two
\* sendEventToDelete appends, ...) are in flight together on the same document,
\* the final document is what running them one after the other in some order
\* gives, so no update is lost.
C6_OneAfterTheOther ==
    (/\ Len(tasks) = 2
     /\ \A i \in 1..2 : tasks[i].pc = "done" /\ tasks[i].op \in {"delete", "send", "forever"}
     /\ tasks[1].path = tasks[2].path
     /\ tasks[1].op = "delete" => tasks[1].title # tasks[2].title)
        => \/ vault = OneAfterTheOther(tasks[1], tasks[2])
           \/ vault = OneAfterTheOther(tasks[2], tasks[1])

-----------------------------------------------------------------------------
(* C7 *)

\* new is old with the line rho put in somewhere
InsertedLine(old, new, rho) ==
    /\ Len(new) = Len(old) + 1
    /\ \E i \in 1..Len(new) :
          /\ new[i] = rho
          /\ SubSeq(new, 1, i - 1) \o SubSeq(new, i + 1, Len(new)) = old

-----------------------------------------------------------------------------
(* C8 *)

\* the entry "zz" of the ledger, and its record in a daily note
ZzInLedger(v) ==
    \E i \in 1..Len(getAllLinesFromFile(v[LedgerPath].content)) :
        getAllLinesFromFile(v[LedgerPath].content)[i] = LedgerLines[2]

ZzInANote(v) ==
    \E p \in Paths \ {LedgerPath} :
        /\ v[p].exists
        /\ \E i \in 1..Len(getAllLinesFromFile(v[p].content)) :
              /\ StartsWith(getAllLinesFromFile(v[p].content)[i], <<"-", " ">>)
              /\ Includes(getAllLinesFromFile(v[p].content)[i], TitleZ)

\* C8: restoreDeletedEvent first inserts the reconstructed record line into the
\* note of the day and only then removes the ledger line: there is no reachable
\* state in which a restored entry is gone from the ledger and not yet in a daily
\* note.
C8_InNoteBeforeOutOfLedger ==
    (/\ \E i \in 1..Len(tasks) : tasks[i].op = "restore"
     /\ \A i \in 1..Len(tasks) : tasks[i].op # "forever"
     /\ ~ZzInLedger(vault))
        => ZzInANote(vault)

-----------------------------------------------------------------------------
(* C9 *)

\* the ledger line an all-digit id addresses exists and is not "- " and text
AddressesNonRecord(ledger, id) ==
    /\ ledger.exists
    /\ Len(id) > 14 /\ \A k \in 1..Len(id) : IsDigit(id[k])
    /\ LET n == DigitsValue(SubSeq(id, 15, Len(id)), 0)
           lines == getAllLinesFromFile(ledger.content)
       IN  /\ 1 <= n /\ n <= Len(lines)
           /\ lines[n] # <<>>
           /\ ~(Len(lines[n]) >= 3 /\ lines[n][1] = "-" /\ lines[n][2] = " ")

\* C9: when the line an identifier addresses exists but is not a record line, the
\* operation (restoreDeletedEvent, deleteForever, deleteEventFromDailyNote)
\* changes no document.
C9_NonRecordLineUntouched ==
    (/\ last.op \in {"restore", "forever"}
     /\ AddressesNonRecord(pre[LedgerPath], last.id))
        => vault = pre

-----------------------------------------------------------------------------
(* C10 *)

\* C10: an identifier that contains a non-digit character or has fewer than 14
\* digits makes deleteEventFromDailyNote, restoreDeletedEvent and deleteForever
\* fail with the invalid-identifier error before any document is read or written.
C10_InvalidIdRejected ==
    (/\ last.op \in {"delete", "restore", "forever"}
     /\ \/ \E k \in 1..Len(last.id) : last.id[k] \notin Digits
        \/ Cardinality({k \in 1..Len(last.id) : last.id[k] \in Digits}) < 14)
        => /\ last.err = "InvalidId"
           /\ last.io = <<>>
           /\ vault = pre

-----------------------------------------------------------------------------
(* C11 *)

Changed == last.op = "change" /\ last.err = "none"

\* new is old with the lines s..e replaced by the lines of span
SpanReplaced(old, new, s, e, span) ==
    /\ 0 <= s /\ s <= e /\ e <= Len(old) - 1
    /\ new = SubSeq(old, 1, s) \o span \o SubSeq(old, e + 2, Len(old))

\* C11: an edit that leaves the record in its document replaces the whole span of
\* the record: the document written is the old one with the record line and all
\* its continuation lines replaced by the lines of the newly formatted record, so
\* that no note line of the old record remains and the other lines are unchanged.
C11_EditReplacesSpan ==
    (Changed /\ last.route # "move") =>
        SpanReplaced(OldLines, NewLines, last.start, FindEndIndex(OldLines, last.start),
                     getAllLinesFromFile(last.newLine))

-----------------------------------------------------------------------------
(* C12 *)

\* C12: after a move to the note of another day the source document holds no
\* line of the span of the moved record, neither the record line nor its
\* continuation lines, and every other line of the source is unchanged.
C12_MoveRemovesSpan ==
    (Changed /\ last.route = "move" /\ last.target # last.path) =>
        SpanRemoved(OldLines, NewLines, last.start, FindEndIndex(OldLines, last.start))

-----------------------------------------------------------------------------
(* C13 *)

\* the reads and writes of a call, without the notes it created
ReadsAndWrites(t) == SelectSeq(t.io, LAMBDA x : x[1] \in {"read", "write"})

\* the two read-modify-write cycles of a move, the source first
TwoCycles(t) ==
    <<<<"read", t.path>>, <<"write", t.path>>, <<"read", t.target>>, <<"write", t.target>>>>

HasLine(v, path, line) ==
    /\ v[path].exists
    /\ \E k \in 1..Len(getAllLinesFromFile(v[path].content)) :
          getAllLinesFromFile(v[path].content)[k] = line

\* the only call in flight is a move that has written the source and not yet the
\* target
BetweenCycles ==
    /\ Len(tasks) = 1
    /\ tasks[1].op = "change" /\ tasks[1].route = "move"
    /\ tasks[1].pc \in {"readTarget", "writeTarget"}

\* C13: a move to another day's note is two separate read-modify-write cycles,
\* the source document first (record removed) and the target document second
\* (record inserted); stopped between the two, the record is left in both
\* documents or in neither.
C13_TwoCyclesSourceFirst ==
    /\ \A i \in 1..Len(tasks) :
          (tasks[i].op = "change" /\ tasks[i].route = "move")
              => /\ Len(ReadsAndWrites(tasks[i])) <= 4
                 /\ ReadsAndWrites(tasks[i])
                        = SubSeq(TwoCycles(tasks[i]), 1, Len(ReadsAndWrites(tasks[i])))
                 /\ (tasks[i].pc = "done" /\ tasks[i].err = "none")
                        => ReadsAndWrites(tasks[i]) = TwoCycles(tasks[i])
    /\ BetweenCycles
          => (HasLine(vault, tasks[1].path, tasks[1].line)
                <=> HasLine(vault, tasks[1].target, tasks[1].newLine))

\* the move of "a" stopped between its cycles: the source is written without
\* the record line and the target has not got the new line, the record is lost
C13_Witness ==
    /\ BetweenCycles
    /\ tasks[1].pc = "readTarget"
    /\ tasks[1].line = Rec0900a
    /\ HasLine(pre, Note1, Rec0900a)
    /\ ~HasLine(vault, Note1, Rec0900a)
    /\ ~HasLine(vault, tasks[1].target, tasks[1].newLine)

-----------------------------------------------------------------------------
(* C14 *)

\* "[c] " for a task type, with c the one character of the type, nothing for the
\* default type
MarkerOf(eventType) ==
    IF eventType = "default" THEN <<>>
    ELSE <<"[">> \o getMarkBasedOnEvent(eventType) \o <<"]", " ">>

\* HH:MM and YYYY-MM-DD of a moment YYYYMMDDHHmm, character by character
Clock5(m) == SubSeq(m, 9, 10) \o <<":">> \o SubSeq(m, 11, 12)

Date10(m) == SubSeq(m, 1, 4) \o <<"-">> \o SubSeq(m, 5, 6) \o <<"-">> \o SubSeq(m, 7, 8)

\* C14: formatEventLine renders "- HH:MM-HH:MM <content>" when start and end are
\* on the same day and "- <content> TAKEOFF YYYY-MM-DD CAL YYYY-MM-DD" when they
\* are not; a task type puts "[<marker>] " right after "- " and the default type
\* has no marker; ("Lunch", 12:00, 13:00 of one day, default) gives
\* "- 12:00-13:00 Lunch".
C14_SameDayOrDates ==
    (last.op = "format" /\ BlockId(last.cleanContent) = <<>> /\ Trim(last.notes) = <<>>) =>
        /\ Len(getMarkBasedOnEvent(last.eventType)) = (IF last.eventType = "default" THEN 0 ELSE 1)
        /\ SubSeq(last.startMoment, 1, 8) = SubSeq(last.endMoment, 1, 8)
              => last.out = <<"-", " ">> \o MarkerOf(last.eventType) \o Clock5(last.startMoment)
                               \o <<"-">> \o Clock5(last.endMoment) \o <<" ">> \o last.cleanContent
        /\ SubSeq(last.startMoment, 1, 8) # SubSeq(last.endMoment, 1, 8)
              => last.out = <<"-", " ">> \o MarkerOf(last.eventType) \o last.cleanContent
                               \o <<" ", "TAKEOFF", " ">> \o Date10(last.startMoment)
                               \o <<" ", "CAL", " ">> \o Date10(last.endMoment)
        /\ (/\ last.cleanContent = Lunch /\ last.eventType = "default"
            /\ last.startMoment = At(Day1, <<"1", "2">>, <<"0", "0">>)
            /\ last.endMoment = At(Day1, <<"1", "3">>, <<"0", "0">>))
              => last.out = <<"-", " ", "1", "2", ":", "0", "0", "-", "1", "3", ":", "0", "0",
                              " ", "L", "u", "n", "c", "h">>

\* "Trip" from day 1 to day 3 as a done task: the marker and the two dates
C14_Witness ==
    /\ last.op = "format"
    /\ last.cleanContent = Trip /\ last.eventType = "TASK-DONE" /\ last.notes = NoNotes
    /\ last.out = <<"-", " ", "[", "x", "]", " ", "T", "r", "i", "p", " ", "TAKEOFF", " ">>
                      \o Date10(At(Day1, <<"0", "0">>, <<"0", "0">>))
                      \o <<" ", "CAL", " ">> \o Date10(At(Day3, <<"0", "0">>, <<"0", "0">>))

-----------------------------------------------------------------------------
(* C15 *)

\* C15: formatting is idempotent through stripping: for every content c, moments
\* s <= e and type t, formatEventLine(cleanEvent(formatEventLine(c, s, e, t)), s,
\* e, t) = formatEventLine(c, s, e, t).
C15_FormatStripFormat ==
    last.op = "reformat" => last.out = last.line

-----------------------------------------------------------------------------
(* C16 *)

\* the number of places at which p occurs in s
Occurrences(s, p) == Cardinality({i \in 1..(Len(s) - Len(p) + 1) : OccursAt(s, p, i)})

\* s ends with p
EndsWith(s, p) == Len(s) >= Len(p) /\ SubSeq(s, Len(s) - Len(p) + 1, Len(s)) = p

\* C16: a trailing annotation token (a space, a caret and two or more
\* alphanumerics at the end of the content) survives every reformat: the output
\* of formatEventLine and of formatAllDayEvent has it exactly once, unchanged, at
\* the end of the rendered record line, also when notes are given.
C16_AnnotationLast ==
    (last.op \in {"format", "formatAllDay"} /\ last.cleanContent = ContentBlockId) =>
        /\ Occurrences(last.out, <<"^", "a", "b">>) = 1
        /\ EndsWith(getAllLinesFromFile(last.out)[1], <<" ", "^", "a", "b">>)

-----------------------------------------------------------------------------
(* C17 *)

\* the lines of the notes given to the last call, white space around them removed
NoteLines == getAllLinesFromFile(Trim(last.notes))

-----------------------------------------------------------------------------
(* C18 *)

\* the line ends with the calendar mark and the end date, before the block id if
\* the content has one
EndsWithEndDate(line, cleanContent, endMoment) ==
    EndsWith(line, <<" ", "CAL", " ">> \o Date10(endMoment)
                       \o (IF BlockId(cleanContent) = <<>> THEN <<>>
                           ELSE <<" ">> \o BlockId(cleanContent)))

\* a time range HH:MM-HH:MM somewhere in the line
HasTimeRange(line) == \E i \in 1..Len(line) : RangeLenAt(line, i) > 0

\* C18: for an all-day task record the rendered line has no time range, holds the
\* TAKEOFF start date if and only if the start day differs from the original
\* start day or start and end are on different days, and always ends (before any
\* annotation) with the CAL end date.
C18_AllDayDates ==
    (last.op = "formatAllDay" /\ last.eventType \in {"TASK-TODO", "TASK-DONE"}) =>
        /\ ~HasTimeRange(last.out)
        /\ Includes(last.out, <<" ", "TAKEOFF", " ">> \o Date10(last.startMoment))
              <=> \/ SubSeq(last.originalStartDate, 1, 8) # SubSeq(last.startMoment, 1, 8)
                  \/ SubSeq(last.startMoment, 1, 8) # SubSeq(last.endMoment, 1, 8)
        /\ Includes(last.out, <<"TAKEOFF">>)
              <=> Includes(last.out, <<" ", "TAKEOFF", " ">> \o Date10(last.startMoment))
        /\ EndsWithEndDate(last.out, last.cleanContent, last.endMoment)
        /\ StartsWith(last.out, <<"-", " ">> \o MarkerOf(last.eventType)
                                    \o WithoutBlockId(last.cleanContent))

\* the task stays on its day: no TAKEOFF date, the CAL date at the end; and the
\* same task moved to another day has the TAKEOFF date
C18_Witness ==
    /\ last.op = "formatAllDay"
    /\ last.eventType = "TASK-TODO" /\ last.cleanContent = ContentE
    /\ SubSeq(last.originalStartDate, 1, 8) = Day2
    /\ last.out = <<"-", " ", "[", " ", "]", " ", "e", " ", "CAL", " ">>
                      \o Date10(At(Day2, <<"0", "9">>, <<"0", "5">>))

-----------------------------------------------------------------------------
(* C19 *)

\* a record-like line: "- H:MM" or "- HH:MM" at its start, a task box "- [ ]",
\* "- [x]" or "- [-]" anywhere in it, or a "- " line with a CAL or TAKEOFF date
\* marker
RecordLike(line) ==
    \/ StartsWith(line, <<"-", " ">>) /\ TimeLenAt(line, 3) > 0
    \/ \E c \in {" ", "x", "-"} : Includes(line, <<"-", " ", "[", c, "]">>)
    \/ /\ StartsWith(line, <<"-", " ">>)
       /\ \E mark \in {"CAL", "TAKEOFF"} : Includes(line, <<" ", mark, " ">>)

\* the 0-based indices of the record-like lines
RecordLikeLines(lines) == {i \in 0..(Len(lines) - 1) : RecordLike(lines[i + 1])}

\* the setting is set, and the 0-based indices of the lines that contain it
Configured(text) == Trim(text) # <<>>

LinesWith(lines, text) == {i \in 0..(Len(lines) - 1) : Includes(lines[i + 1], text)}

\* C19: for the types TASK-TODO and default, when the document has a record-like
\* line, findInsertPosition returns the index right after the last record-like
\* line, whatever anchors are configured.
C19_AfterLastRecordLike ==
    (/\ last.op = "insert"
     /\ last.eventType \in {"TASK-TODO", "default"}
     /\ RecordLikeLines(last.fileLines) # {})
        => last.out = MaxOfSet(RecordLikeLines(last.fileLines)) + 1

\* both anchors are configured and in the document, below the records: the
\* position is the one after the note line "\t- [ ] x" of the last record
C19_Witness ==
    /\ last.op = "insert"
    /\ last.eventType = "default"
    /\ last.fileLines = <<HeadingH, Rec0900a, NoteTask, HeadingS, TextX>>
    /\ Configured(settings.InsertAfter)
    /\ LinesWith(last.fileLines, settings.InsertAfter) = {3}
    /\ last.out = 3

-----------------------------------------------------------------------------
(* C20 *)

\* the 0-based indices of the section headings: "#"s and a space
SectionHeadings(lines) == {i \in 0..(Len(lines) - 1) : IsStopLine(lines[i + 1]) /\ lines[i + 1][1] = "#"}

\* the position is after line i, with nothing but blank lines between
AfterLine(lines, i, position) ==
    /\ i < position /\ position <= Len(lines)
    /\ \A j \in (i + 1)..(position - 1) : Trim(lines[j + 1]) = <<>>
    /\ position < Len(lines) => Trim(lines[position + 1]) # <<>>

\* C20: when no record-like line applies, findInsertPosition falls back in this
\* order: after the "insert after" anchor if it is configured and a line contains
\* it; else after the "process entries below" marker; else the index after the
\* first section heading; else the length of the document (0 for an empty one).
C20_FallbackOrder ==
    (/\ last.op = "insert"
     /\ \/ last.eventType \notin {"TASK-TODO", "default"}
        \/ RecordLikeLines(last.fileLines) = {})
        => LET lines == last.fileLines
               anchors == LinesWith(lines, settings.InsertAfter)
               markers == LinesWith(lines, settings.ProcessEntriesBelow)
           IN  IF Configured(settings.InsertAfter) /\ anchors # {}
               THEN AfterLine(lines, MinOfSet(anchors), last.out)
               ELSE IF Configured(settings.ProcessEntriesBelow) /\ markers # {}
               THEN last.out = MinOfSet(markers) + 1
               ELSE IF SectionHeadings(lines) # {}
               THEN last.out = MinOfSet(SectionHeadings(lines)) + 1
               ELSE last.out = Len(lines)

-----------------------------------------------------------------------------
(* C21 *)

\* the entries getDeletedEvents returns for a ledger
ListedEntries(ledger) == {getDeletedEvents(ledger)[k] : k \in 1..Len(getDeletedEvents(ledger))}

\* the line number of a ledger id
LineNumOf(id) == ParseInt(SliceFrom(id, 14)).val

\* the last call was deleteForever with an id whose line was a record line
Purged ==
    /\ last.op = "forever"
    /\ pre[LedgerPath].exists
    /\ IsRecordLine(LedgerLine(pre[LedgerPath].content, last.id))

\* C21: after deleteForever(id) on a ledger whose line id.slice(14) holds a record
\* line, that entry is no longer in the ledger and getDeletedEvents does not
\* return it, every other entry is still there with the same content, and no
\* daily note is modified.
C21_PurgeRemovesOneEntry ==
    Purged =>
        LET old == getAllLinesFromFile(pre[LedgerPath].content)
            new == getAllLinesFromFile(vault[LedgerPath].content)
            n == LineNumOf(last.id)
        IN  /\ last.err = "none"
            /\ Len(new) = Len(old)
            /\ new[n] = <<>>
            /\ \A i \in 1..Len(old) : i # n => new[i] = old[i]
            /\ DeletedEntry(old[n]) \notin ListedEntries(vault[LedgerPath])
            /\ ListedEntries(vault[LedgerPath]) = ListedEntries(pre[LedgerPath]) \ {DeletedEntry(old[n])}
            /\ \A p \in Paths \ {LedgerPath} : vault[p] = pre[p]

\* the entry "zz" of line 2 is purged from a ledger that has another entry below it
C21_Witness ==
    /\ Purged
    /\ LineNumOf(last.id) = 2
    /\ Len(getDeletedEvents(pre[LedgerPath])) = 2
    /\ Len(getDeletedEvents(vault[LedgerPath])) = 1
    /\ getDeletedEvents(vault[LedgerPath])[1].id = Now1430 \o <<"3">>

-----------------------------------------------------------------------------
(* C22 *)

Sent == last.op = "send" /\ last.err = "none"

\* the ledger before the call had no line at all: it was missing or empty
NoLedgerLines(ledger) == ~ledger.exists \/ ledger.content = <<>>

\* C22: sendEventToDelete appends the entry as the last line of the ledger and
\* leaves all earlier lines unchanged; the id it writes is a 14-digit timestamp
\* followed by n, the 1-based number of the line the entry is on right after the
\* append, and n = 1 when the ledger was missing or empty.
C22_AppendWithLineNumber ==
    Sent =>
        LET old == getAllLinesFromFile(pre[LedgerPath].content)
            new == getAllLinesFromFile(vault[LedgerPath].content)
            n == Len(new)
        IN  /\ new[n] = last.event \o DeletedAtTag \o last.id
            /\ last.id = last.now \o Decimal(n)
            /\ Len(last.now) = 14 /\ \A k \in 1..14 : last.now[k] \in Digits
            /\ IF NoLedgerLines(pre[LedgerPath]) THEN n = 1
               ELSE /\ n = Len(old) + 1
                    /\ \A i \in 1..Len(old) : new[i] = old[i]
            /\ \A p \in Paths \ {LedgerPath} : vault[p] = pre[p]

\* an entry is appended as line 3 below a line that an earlier removal left blank
C22_Witness ==
    /\ Sent
    /\ Len(getAllLinesFromFile(pre[LedgerPath].content)) = 2
    /\ getAllLinesFromFile(pre[LedgerPath].content)[2] = <<>>
    /\ last.id = last.now \o <<"3">>
    /\ getAllLinesFromFile(vault[LedgerPath].content)[3] = last.event \o DeletedAtTag \o last.id

\* an entry is appended to a ledger that an earlier removal left empty
C22_WitnessEmpty ==
    /\ Sent
    /\ pre[LedgerPath].exists /\ pre[LedgerPath].content = <<>>
    /\ last.id = last.now \o <<"1">>

-----------------------------------------------------------------------------
(* C23 *)

\* C23: the resolvers of the edit flows (findEventLine and the lookup loop of
\* updateTimeIntervalOnly) never select a continuation line as if it were a
\* record-start: every index they return other than -1 is a line that begins
\* with "- ", also when the original title occurs in a note line or a heading
\* above the record.
C23_ResolvesRecordStart ==
    (/\ last.op \in {"findEventLine", "lookup"}
     /\ last.out # -1)
        => /\ 0 <= last.out /\ last.out < Len(last.fileLines)
           /\ StartsWith(last.fileLines[last.out + 1], <<"-", " ">>)

-----------------------------------------------------------------------------
(* C24 *)

\* the rank a record-start line had among the record-start lines of the note as
\* it was at first (the record lines of the two notes are all different)
OriginalRank(line) ==
    LET lines0 == IF \E i \in 1..Len(ExampleLines) : ExampleLines[i] = line
                  THEN ExampleLines ELSE SmallLines
        at == CHOOSE i \in 0..(Len(lines0) - 1) : lines0[i + 1] = line
    IN  Cardinality({j \in RecordStarts(lines0) : j < at})

\* neither the title nor the time of the id selects a line, and the ordinal of the
\* id selects the start of a record that had another ordinal at first: records
\* above it were removed since
StaleOrdinal ==
    /\ last.op = "delete"
    /\ pre[last.path].exists
    /\ Len(last.id) > 14 /\ \A k \in 1..Len(last.id) : last.id[k] \in Digits
    /\ TitleLines(OldLines, last.title) = {}
    /\ TimeLines(OldLines, last.id) = {}
    /\ OrdinalLines(OldLines, last.id) # {}
    /\ OriginalRank(OldLines[MinOf(OrdinalLines(OldLines, last.id)) + 1])
          # DigitsValue(SubSeq(last.id, 15, Len(last.id)), 0)

\* C24: the ordinal of an identifier is a verified hint. After records above were
\* removed (ordinals are not renumbered) the ordinal strategy of
\* deleteEventFromDailyNote checks that the candidate line is plausible for the
\* event by title or time and otherwise reports not found: a stale ordinal never
\* makes it delete a different record.
C24_StaleOrdinalNotFound ==
    StaleOrdinal => /\ last.err = "NotFound"
                    /\ vault = pre

-----------------------------------------------------------------------------
(* C25 *)

LedgerNow == getAllLinesFromFile(vault[LedgerPath].content)

LedgerBefore == getAllLinesFromFile(pre[LedgerPath].content)

\* every entry of the lines is on the line its id names
OnItsLine(lines) ==
    \A i \in 1..Len(lines) :
        IsDeletedEntry(lines[i]) =>
            /\ Len(extractDeletedEventId(lines[i])) > 14
            /\ ParseInt(SliceFrom(extractDeletedEventId(lines[i]), 14)) = [nan |-> FALSE, val |-> i]

\* C25: ledger positions are stable. After any sequence of sendEventToDelete,
\* restoreDeletedEvent and deleteForever calls every entry still in the ledger is
\* on the line whose 1-based number is the suffix of its id: a removal blanks the
\* line and never shifts the lines below, and a new entry gets line count + 1.
C25_LedgerPositionsStable ==
    /\ vault[LedgerPath].exists => OnItsLine(LedgerNow)
    /\ (last.op \in {"restore", "forever"} /\ pre[LedgerPath].exists)
          => /\ Len(LedgerNow) = Len(LedgerBefore)
             /\ \A i \in 1..Len(LedgerBefore) :
                   LedgerNow[i] = LedgerBefore[i] \/ LedgerNow[i] = <<>>

\* an entry sent as line 3 is still on line 3 after the entry of line 2 above it
\* was removed
C25_Witness ==
    /\ last.op \in {"restore", "forever"} /\ last.err = "none"
    /\ Len(LedgerNow) = 3
    /\ IsDeletedEntry(LedgerBefore[2])
    /\ LedgerNow[2] = <<>>
    /\ IsDeletedEntry(LedgerNow[3])
    /\ extractDeletedEventId(LedgerNow[3]) = Now1430 \o <<"3">>

-----------------------------------------------------------------------------
(* C26 *)

\* the last line of the record that starts at line s (0-based): the line before
\* the next record-start or section heading, or the last line
SpanEndOf(lines, s) ==
    LET stops == {k \in (s + 1)..(Len(lines) - 1) : IsStopLine(lines[k + 1])}
    IN  IF stops = {} THEN Len(lines) - 1 ELSE MinOf(stops) - 1

\* the record line at s with its note lines
SpanAt(lines, s) == SubSeq(lines, s + 1, SpanEndOf(lines, s) + 1)

\* the last call moved a record into a note that was there before
MovedInto ==
    /\ Changed
    /\ last.route = "move"
    /\ pre[last.target].exists

\* C26: inserting a moved record at the position findInsertPosition computes
\* never separates a record-start line from its continuation lines: after
\* moveEventToNewDay every record that was in the target document before has the
\* same span, its record line followed by the same note lines.
C26_InsertKeepsSpans ==
    MovedInto =>
        LET old == getAllLinesFromFile(pre[last.target].content)
            new == getAllLinesFromFile(vault[last.target].content)
        IN  \A s \in RecordStarts(old) :
                \E t \in RecordStarts(new) : SpanAt(new, t) = SpanAt(old, s)

-----------------------------------------------------------------------------
(* C27 *)

\* the daily note of the day the event starts on after the edit
NewStartNote == NotePathOfDay(SubSeq(last.eventStartMoment, 1, 8))

\* the last call was a changeEvent that took the way of moveEventToNewDay and found
\* the record in its note
MoveAsked ==
    /\ last.op = "change"
    /\ last.route = "move"
    /\ last.err \notin {"FileNotFound", "NotFound"}

\* C27: after changeEvent moves an event whose start day changed, the new record
\* line is in the daily note of the new start day, also when that note did not
\* exist and had to be created, and also when the event ends on a later day than
\* it starts.
C27_MovedToNewStartDay ==
    MoveAsked =>
        /\ last.err = "none"
        /\ vault[NewStartNote].exists
        /\ \E i \in 1..Len(getAllLinesFromFile(vault[NewStartNote].content)) :
              LET line == getAllLinesFromFile(vault[NewStartNote].content)[i]
              IN  /\ StartsWith(line, <<"-", " ">>)
                  /\ Includes(line, ContentE)
        /\ \A p \in Paths \ {last.path, NewStartNote} : vault[p] = pre[p]

-----------------------------------------------------------------------------
(* C28 *)

\* the last call was changeEvent for a task whose original content does not begin
\* with H:MM or HH:MM
AllDayTaskEdit ==
    /\ last.op = "change"
    /\ last.eventType \in {"TASK-TODO", "TASK-DONE"}
    /\ ~(\E n \in {1, 2} :
            /\ Len(last.title) >= n + 3
            /\ \A k \in 1..n : last.title[k] \in Digits
            /\ last.title[n + 1] = ":"
            /\ last.title[n + 2] \in Digits /\ last.title[n + 3] \in Digits)

\* C28: changeEvent on a task whose original content has no leading time modifies
\* only the document at originalPath: it rewrites one line there and never
\* writes, creates or moves the record into another document, even when the start
\* day changed; the path returned is the path of the original document.
C28_AllDayTaskStaysInPlace ==
    AllDayTaskEdit =>
        /\ last.path = Note1
        /\ \A p \in Paths \ {Note1} : vault[p] = pre[p]
        /\ \A k \in 1..Len(last.io) : last.io[k] \in {<<"read", Note1>>, <<"write", Note1>>}
        /\ IF last.err = "none"
           THEN SpanReplaced(OldLines, NewLines, last.start, last.start,
                             getAllLinesFromFile(last.newLine))
           ELSE vault = pre

\* the task "w" was given another start day: its line in the note of the first
\* day is rewritten with the new dates, and the note of the new day is as before
C28_Witness ==
    /\ AllDayTaskEdit
    /\ last.err = "none"
    /\ ~SameDay(OriginalStartDate(last.id), last.eventStartMoment)
    /\ OldLines[last.start + 1] = TaskW
    /\ NewLines[last.start + 1] # TaskW
    /\ Len(NewLines) = Len(OldLines)
    /\ vault[Note2] = pre[Note2]

-----------------------------------------------------------------------------
(* C29 *)

\* C29: the promise of EventCreatePrompt.Prompt settles exactly once, when the
\* modal closes: it is pending while the modal is open; it resolves with
\* {content, startDate, endDate, notes} if and only if submit ran with a content
\* that is not empty, and otherwise rejects with 'No input given.'; a submit with
\* empty content does not close the modal and leaves the promise pending.
C29_SettlesOnceOnClose ==
    /\ last.isOpen <=> last.promise = "pending"
    /\ last.settles = (IF last.isOpen THEN 0 ELSE 1)
    /\ last.promise = "resolved"
          <=> (~last.isOpen /\ last.op = "submit" /\ last.content # <<>>)
    /\ last.promise = "resolved"
          => last.value = [content |-> last.content, startDate |-> last.startDate,
                           endDate |-> last.endDate, notes |-> last.notes]
    /\ last.promise = "rejected"
          <=> (~last.isOpen /\ last.op \in {"cancel", "close"})
    /\ last.promise = "rejected" => last.value = "No input given."
    /\ (last.op = "submit" /\ last.content = <<>>)
          => last.isOpen /\ last.promise = "pending"

\* the promise has resolved with a content and notes that were typed in
C29_Witness ==
    /\ last.op = "submit"
    /\ last.promise = "resolved"
    /\ last.settles = 1
    /\ last.value.content = ContentE
    /\ last.value.notes = NotesN

-----------------------------------------------------------------------------
(* C30 *)

\* C30: after any sequence of changes of the start and end date and time in
\* EventCreatePrompt, from a preset with endDate >= startDate, the result has
\* endDate >= startDate: a start change that would pass the end moves the end to
\* start + 1 hour.
C30_EndNotBeforeStart ==
    (last.op \in {"submit", "cancel", "close"} /\ last.promise = "resolved")
        => last.value.endDate >= last.value.startDate

====
